---------------------------- MODULE Spec2Model ----------------------------
(***************************************************************************)
(* A model of the rgy Game Boy emulator core: the interrupt controller,    *)
(* the CPU's instruction boundary (EI/DI delay, HALT, HALT bug, interrupt  *)
(* dispatch), the timer and the PPU's mode state machine.                  *)
(*                                                                         *)
(* Every device is a record and every method of the source is an operator  *)
(* from records to records, so that a handler which calls several methods  *)
(* in a row (execute -> step -> gpu/timer step -> check_interrupt) is one  *)
(* action.  The variable obs holds what the last operation returned or     *)
(* passed through (return values, the state at the instruction boundary);  *)
(* it is an observation of the run and feeds back into nothing.            *)
(***************************************************************************)
EXTENDS Integers, Naturals, Sequences, FiniteSets, TLC

VARIABLES
    cpu,    \* CpuState                                  (cpu.rs)
    ic,     \* interrupt controller: enable, request     (ic.rs)
    tm,     \* Timer                                     (timer.rs)
    gpu,    \* Gpu: clocks, mode, ly, lyc, STAT, LCDC    (gpu.rs)
    mem,    \* plain RAM bytes written so far            (mmu.rs)
    dma,    \* Dma: on, src                              (dma.rs)
    mbc,    \* Mbc: the cartridge and its bank controller (mbc.rs)
    serial, \* Serial: data, recv, ctrl, clock           (serial.rs)
    joypad, \* Joypad: select, pressed                   (joypad.rs)
    mixer,  \* Mixer and MixerStream                     (sound.rs)
    wram,   \* Wram: banks, CGB extension               (wram.rs)
    cgb,    \* Cgb: speed switch, work RAM banks        (cgb.rs)
    sound,  \* Sound: channel registers              (sound.rs)
    fault,  \* "none", or the panic that ended the program
    obs,    \* observation of the last operation
    frm,    \* account of the current frame or period (an observation)
    n       \* number of operations performed (bounded runs)

\* The devices next to the CPU, interrupt controller, timer and PPU
devs == <<dma, mbc, serial, joypad, mixer, fault, wram, cgb, sound>>

vars == <<cpu, ic, tm, gpu, mem, devs, obs, frm, n>>

(***************************************************************************)
(* Bounds of the model.                                                    *)
(***************************************************************************)
\* operations (calls of execute() and of other public methods) per run of
\* the CPU specification
MaxInstr == 3

(***************************************************************************)
(* Integer helpers: bytes and 16-bit words are naturals, wrapped where the *)
(* source wraps.                                                           *)
(***************************************************************************)
Pow2(k) == 2 ^ k
Bit(v, i) == (v \div Pow2(i)) % 2
W16(v) == v % 65536
Lo(v) == v % 256
Hi(v) == (v \div 256) % 256
Min(S) == CHOOSE x \in S : \A y \in S : x <= y
None == -1

\* A byte array that is all zero: no byte written yet
NoMem == [a \in {} |-> 0]

\* Unit::default: Option::None for the stream
NoStream == [on |-> FALSE]

(***************************************************************************)
(* Interrupt controller (ic.rs).  Ints is five booleans; it is modelled as *)
(* the set of the bit numbers that are true: 0 VBLANK, 1 LCD, 2 TIMER,     *)
(* 3 SERIAL, 4 JOYPAD.                                                     *)
(***************************************************************************)
VBLANK == 0
LCD == 1
TIMER == 2
SERIAL == 3
JOYPAD == 4
IntBits == 0 .. 4

ADDR_IF == 65295   \* 0xff0f
ADDR_IE == 65535   \* 0xffff

\* Ints::set
Ints_set(value) == {i \in IntBits : Bit(value, i) = 1}

\* Ints::get
Ints_get(s) ==
    (IF VBLANK \in s THEN 1 ELSE 0) + (IF LCD \in s THEN 2 ELSE 0)
  + (IF TIMER \in s THEN 4 ELSE 0) + (IF SERIAL \in s THEN 8 ELSE 0)
  + (IF JOYPAD \in s THEN 16 ELSE 0)

\* r.<flag> = !consume
Consume(r, b, consume) == IF consume THEN r \ {b} ELSE r \cup {b}

\* A wrong priority order: TIMER is looked at before LCD.
check_timer_first(c, consume) ==
    LET e == c.enable
        r == c.request
    IN  IF VBLANK \in e /\ VBLANK \in r
          THEN [vec |-> 64, ic |-> [c EXCEPT !.request = Consume(r, VBLANK, consume)]]
        ELSE IF TIMER \in e /\ TIMER \in r
          THEN [vec |-> 80, ic |-> [c EXCEPT !.request = Consume(r, TIMER, consume)]]
        ELSE IF LCD \in e /\ LCD \in r
          THEN [vec |-> 72, ic |-> [c EXCEPT !.request = Consume(r, LCD, consume)]]
        ELSE IF SERIAL \in e /\ SERIAL \in r
          THEN [vec |-> 88, ic |-> [c EXCEPT !.request = Consume(r, SERIAL, consume)]]
        ELSE IF JOYPAD \in e /\ JOYPAD \in r
          THEN [vec |-> 96, ic |-> [c EXCEPT !.request = Consume(r, JOYPAD, consume)]]
        ELSE [vec |-> None, ic |-> c]

\* Ic::check: the vector returned (None for Option::None) and the
\* controller afterwards.
check(c, consume) ==
    LET e == c.enable
        r == c.request
    IN  IF VBLANK \in e /\ VBLANK \in r
          THEN [vec |-> 64, ic |-> [c EXCEPT !.request = Consume(r, VBLANK, consume)]]
        ELSE IF LCD \in e /\ LCD \in r
          THEN [vec |-> 72, ic |-> [c EXCEPT !.request = Consume(r, LCD, consume)]]
        ELSE IF TIMER \in e /\ TIMER \in r
          THEN [vec |-> 80, ic |-> [c EXCEPT !.request = Consume(r, TIMER, consume)]]
        ELSE IF SERIAL \in e /\ SERIAL \in r
          THEN [vec |-> 88, ic |-> [c EXCEPT !.request = Consume(r, SERIAL, consume)]]
        ELSE IF JOYPAD \in e /\ JOYPAD \in r
          THEN [vec |-> 96, ic |-> [c EXCEPT !.request = Consume(r, JOYPAD, consume)]]
        ELSE [vec |-> None, ic |-> c]

\* Ic::peek
peek(c) == check(c, FALSE)

\* Ic::poll
poll(c) == check(c, TRUE)

\* Ic::on_write (0xffff: IE, 0xff0f: IF)
ic_on_write(c, addr, value) ==
    IF addr = ADDR_IE THEN [c EXCEPT !.enable = Ints_set(value)]
    ELSE IF addr = ADDR_IF THEN [c EXCEPT !.request = Ints_set(value)]
    ELSE c

\* IcCells::default
IcNew == [enable |-> {}, request |-> {}]


(***************************************************************************)
(* Timer (timer.rs).                                                       *)
(***************************************************************************)
ADDR_DIV == 65284    \* 0xff04
ADDR_TIMA == 65285   \* 0xff05
ADDR_TMA == 65286    \* 0xff06
ADDR_TAC == 65287    \* 0xff07

\* Timer::default
TimerNew == [div |-> 0, div_clocks |-> 0, tim |-> 0, tim_clocks |-> 0,
             tim_load |-> 0, ctrl |-> 0]

\* Timer::tim_clock_reset: the period selected by TAC bits 1..0
tim_clock_reset(t) ==
    [t EXCEPT !.tim_clocks = CASE t.ctrl % 4 = 0 -> 1024
                               [] t.ctrl % 4 = 1 -> 16
                               [] t.ctrl % 4 = 2 -> 64
                               [] OTHER -> 256]

\* Timer::div_clock_reset
div_clock_reset(t) == [t EXCEPT !.div_clocks = 256]

\* The cycles past the end of a period are dropped instead of carried into
\* the next period.
tim_loop_no_carry(t, rem, irq) ==
    [tm |-> tim_clock_reset([t EXCEPT !.tim = IF t.tim = 255 THEN t.tim_load ELSE t.tim + 1]),
     irq |-> IF t.tim = 255 THEN irq \cup {TIMER} ELSE irq]

\* TIMA restarts from 0 after an overflow instead of from TMA.
tim_loop_reload_zero(t, rem, irq) ==
    [tm |-> [tim_clock_reset([t EXCEPT !.tim = (t.tim + 1) % 256])
               EXCEPT !.tim_clocks = @ - rem],
     irq |-> IF t.tim = 255 THEN irq \cup {TIMER} ELSE irq]

\* The loop of Timer::step: one pass increments TIMA, reloads it from TMA
\* on overflow and restarts the period; it repeats while the remainder
\* exceeds the period.
RECURSIVE tim_loop(_, _, _)
tim_loop(t, rem, irq) ==
    LET of == (t.tim = 255)
        t1 == [t EXCEPT !.tim = IF of THEN t.tim_load ELSE t.tim + 1]
        t2 == tim_clock_reset(t1)
        irq2 == IF of THEN irq \cup {TIMER} ELSE irq
    IN  IF rem <= t2.tim_clocks
          THEN [tm |-> [t2 EXCEPT !.tim_clocks = t2.tim_clocks - rem], irq |-> irq2]
          ELSE tim_loop(t2, rem - t2.tim_clocks, irq2)

\* A usize of 2^63 or more is kept as its two's-complement reading: -k
\* stands for 2^64 - k, the value a wrapped subtraction leaves.
usize_lt(a, b) == IF a < 0 THEN (b < 0 /\ a < b) ELSE (b < 0 \/ a < b)

\* Timer::step: the timer afterwards, the interrupts it requested and
\* whether `self.div_clocks -= rem` overflowed (time > div_clocks + 256): a
\* debug build panics there, a release build goes on with the wrapped
\* div_clocks, which is the timer given.
timer_step(t, time) ==
    LET d == IF usize_lt(t.div_clocks, time)
               THEN [t EXCEPT !.div = (t.div + 1) % 256,
                              !.div_clocks = div_clock_reset(t).div_clocks
                                               - (time - t.div_clocks)]
               ELSE [t EXCEPT !.div_clocks = t.div_clocks - time]
        overflow == usize_lt(t.div_clocks, time)
                    /\ time - t.div_clocks > div_clock_reset(t).div_clocks
        r == IF Bit(d.ctrl, 2) = 0 THEN [tm |-> d, irq |-> {}]
             ELSE IF d.tim_clocks < time THEN tim_loop(d, time - d.tim_clocks, {})
             ELSE [tm |-> [d EXCEPT !.tim_clocks = d.tim_clocks - time], irq |-> {}]
    IN  [tm |-> r.tm, irq |-> r.irq, overflow |-> overflow]

\* Timer::on_read: the byte, or the panic of unreachable!()
timer_on_read(t, addr) ==
    CASE addr = ADDR_DIV -> [value |-> t.div, fault |-> "none"]
      [] addr = ADDR_TIMA -> [value |-> t.tim, fault |-> "none"]
      [] addr = ADDR_TMA -> [value |-> t.tim_load, fault |-> "none"]
      [] addr = ADDR_TAC -> [value |-> t.ctrl, fault |-> "none"]
      [] OTHER -> [value |-> None, fault |-> "panic"]

\* Timer::on_write: the timer afterwards; an address that is none of the
\* four registers is unreachable!() and panics.
timer_on_write(t, addr, value) ==
    CASE addr = ADDR_DIV -> [tm |-> [t EXCEPT !.div = 0], fault |-> "none"]
      [] addr = ADDR_TIMA -> [tm |-> [t EXCEPT !.tim = value], fault |-> "none"]
      [] addr = ADDR_TMA -> [tm |-> [t EXCEPT !.tim_load = value], fault |-> "none"]
      [] addr = ADDR_TAC ->
           LET t1 == [t EXCEPT !.ctrl = value]
           IN  [tm |-> IF Bit(t.ctrl, 2) = 0 /\ Bit(value, 2) = 1
                         THEN tim_clock_reset(t1) ELSE t1,
                fault |-> "none"]
      [] OTHER -> [tm |-> t, fault |-> "panic"]

(***************************************************************************)
(* PPU (gpu.rs): the mode state machine.  lcd_status is the set of the     *)
(* STAT interrupt-enable bits that are set (3 HBLANK, 4 VBLANK, 5 OAM,     *)
(* 6 LYC); lcd_control is the LCDC byte.                                   *)
(***************************************************************************)
LYC_INT == 6
OAM_INT == 5
VBLANK_INT == 4
HBLANK_INT == 3
LCD_PPU_ENABLE == 7
BG_AND_WINDOW_ENABLE == 0
VRAM_HEIGHT == 144

ADDR_LCDC == 65344   \* 0xff40
ADDR_STAT == 65345   \* 0xff41
ADDR_LY == 65348     \* 0xff44
ADDR_LYC == 65349    \* 0xff45

Modes == {"OamScan", "Drawing", "HBlank", "VBlank", "None"}

\* Hdma::new
HdmaNew == [on |-> FALSE, src_low |-> 0, src_high |-> 0, dst_low |-> 0, dst_high |-> 0,
            src_wip |-> 0, dst_wip |-> 0, len |-> 0, hblank |-> FALSE]

\* Option::None for a DmaRequest (a request has a length of 16 or more)
NoRequest == [src |-> 0, dst |-> 0, len |-> 0]

\* x with the bits of mask cleared (x & !mask on a u16)
ClearBits(x, mask) ==
    LET RECURSIVE clr(_, _, _)
        clr(a, b, w) ==
            IF w = 0 THEN 0
            ELSE (IF b % 2 = 1 THEN 0 ELSE a % 2) + 2 * clr(a \div 2, b \div 2, w - 1)
    IN  clr(x, mask, 16)

\* An HDMA5 write arms a transfer whatever the state of the one running.
hdma_start_always(h, value) ==
    [h EXCEPT !.hblank = value >= 128,
              !.len = value % 128,
              !.src_wip = ClearBits(h.src_high * 256 + h.src_low, 15),
              !.dst_wip = ClearBits(h.dst_high * 256 + h.dst_low, 57359) + 32768,
              !.on = TRUE]

\* Hdma::start (a write to HDMA5): `x & !0xe00f | 0x8000` is
\* (x & 0x1ff0) | 0x8000, and the OR adds bit 15, which the mask cleared.
hdma_start(h, value) ==
    IF h.on /\ h.hblank /\ value < 128
      THEN [h EXCEPT !.on = FALSE, !.hblank = FALSE]
      ELSE [h EXCEPT !.hblank = value >= 128,
                     !.len = value % 128,
                     !.src_wip = ClearBits(h.src_high * 256 + h.src_low, 15),
                     !.dst_wip = ClearBits(h.dst_high * 256 + h.dst_low, 57359) + 32768,
                     !.on = TRUE]

\* An H-blank transfer that stops one request early.
hdma_run_short(h, hblank) ==
    IF ~h.on \/ (h.hblank /\ ~hblank)
      THEN [hdma |-> h, req |-> NoRequest, overflow |-> FALSE]
      ELSE LET size == IF h.hblank THEN 16 ELSE (h.len + 1) * 16
           IN  [hdma |-> [h EXCEPT !.src_wip = (@ + size) % 65536,
                                   !.dst_wip = (@ + size) % 65536,
                                   !.len = IF h.hblank THEN (h.len + 255) % 256 ELSE 255,
                                   !.on = IF h.hblank THEN h.len > 1 ELSE FALSE],
                req |-> [src |-> h.src_wip, dst |-> h.dst_wip, len |-> size],
                overflow |-> (h.src_wip + size > 65535 \/ h.dst_wip + size > 65535)]

\* Hdma::run: the HDMA afterwards and the request returned (DmaRequest::new
\* (src, dst, len), NoRequest for none).  src_wip += size and
\* dst_wip += size are u16 additions: overflow tells that one of them
\* passes 0xffff, which panics in a debug build and wraps, as here, in a
\* release build.
hdma_run(h, hblank) ==
    IF ~h.on \/ (h.hblank /\ ~hblank)
      THEN [hdma |-> h, req |-> NoRequest, overflow |-> FALSE]
      ELSE LET size == IF h.hblank THEN 16 ELSE (h.len + 1) * 16
           IN  [hdma |-> [h EXCEPT !.src_wip = (@ + size) % 65536,
                                   !.dst_wip = (@ + size) % 65536,
                                   !.len = IF h.hblank THEN (h.len + 255) % 256 ELSE 255,
                                   !.on = IF h.hblank THEN h.len # 0 ELSE FALSE],
                req |-> [src |-> h.src_wip, dst |-> h.dst_wip, len |-> size],
                overflow |-> (h.src_wip + size > 65535 \/ h.dst_wip + size > 65535)]

\* Dmg::default: the three palettes of the DMG extension, the colours
\* numbered White 0 .. Black 3
DmgNew == [kind |-> "dmg", obj_palette0 |-> [c \in 0 .. 3 |-> c],
           obj_palette1 |-> [c \in 0 .. 3 |-> c]]

\* Gpu::new with the DMG extension.  vram holds the bytes written so far,
\* keyed by the offset in the bank (every other byte is 0); bg_palette is
\* the DMG extension's background palette.  oam holds the bytes written to
\* the OAM so far, keyed by the index in the array (every other byte is 0).
GpuNew == [clocks |-> 0, lcd_status |-> {}, mode |-> "None", ly |-> 0,
           lyc |-> 0, lcd_control |-> 0, scy |-> 0, scx |-> 0, wx |-> 0, wy |-> 0,
           vram |-> <<>>, oam |-> <<>>, bg_palette |-> [c \in 0 .. 3 |-> c],
           hdma |-> HdmaNew, cgb_ext |-> DmgNew]

\* A value returned, and the panic of a call that returns none
Panic == [value |-> None, fault |-> "panic"]

Value(v) == [value |-> v, fault |-> "none"]

\* Whether the line's background is drawn with the CGB extension, whose
\* GpuCgbExtension::get_scanline_after_offset is todo!(): Gpu::draw calls
\* it through when_bg_and_window_enable when LCDC bit 0 is set, and panics.
draw_todo(g) == g.cgb_ext.kind = "cgb" /\ Bit(g.lcd_control, BG_AND_WINDOW_ENABLE) = 1

\* The last visible line is not drawn.
draw_misses_last_line(g) ==
    IF g.ly >= VRAM_HEIGHT - 1 THEN Value(None)
    ELSE IF draw_todo(g) THEN Panic
    ELSE Value(g.ly)

\* Gpu::draw: the number of the line rendered, None past the last visible
\* line (the pixels are not modelled here), or the panic of todo!().
draw(g) ==
    IF g.ly >= VRAM_HEIGHT THEN Value(None)
    ELSE IF draw_todo(g) THEN Panic
    ELSE Value(g.ly)

\* The arm (Mode::Drawing, 172..): the line is drawn and HBLANK entered.  A
\* panic of draw() ends the step before anything is requested or stored.
drawing_end(g, clocks) ==
    IF draw(g).fault = "panic"
      THEN [clocks |-> g.clocks, mode |-> g.mode, ly |-> g.ly, irq |-> {},
            line |-> None, fault |-> "panic"]
      ELSE [clocks |-> clocks - 172, mode |-> "HBlank", ly |-> g.ly,
            irq |-> IF HBLANK_INT \in g.lcd_status THEN {LCD} ELSE {},
            line |-> draw(g).value, fault |-> "none"]

\* VBLANK is entered one line early, when LY passes 142.
hblank_end_early(g, clocks) ==
    IF g.ly + 1 > 142
      THEN [clocks |-> clocks - 204, mode |-> "VBlank", ly |-> g.ly + 1,
            irq |-> {VBLANK} \cup (IF VBLANK_INT \in g.lcd_status THEN {LCD} ELSE {}),
            line |-> None, fault |-> "none"]
      ELSE [clocks |-> clocks - 204, mode |-> "OamScan", ly |-> g.ly + 1,
            irq |-> IF OAM_INT \in g.lcd_status THEN {LCD} ELSE {},
            line |-> None, fault |-> "none"]

\* The arm (Mode::HBlank, 204..): LY (a u8) is incremented; past 143 the
\* VBLANK interrupt is requested and VBLANK entered, else OAM_SCAN.
hblank_end(g, clocks) ==
    IF (g.ly + 1) % 256 > 143
      THEN [clocks |-> clocks - 204, mode |-> "VBlank", ly |-> (g.ly + 1) % 256,
            irq |-> {VBLANK} \cup (IF VBLANK_INT \in g.lcd_status THEN {LCD} ELSE {}),
            line |-> None, fault |-> "none"]
      ELSE [clocks |-> clocks - 204, mode |-> "OamScan", ly |-> (g.ly + 1) % 256,
            irq |-> IF OAM_INT \in g.lcd_status THEN {LCD} ELSE {},
            line |-> None, fault |-> "none"]

\* The arm (Mode::VBlank, 456..): LY is incremented; past 153 it is set to 0
\* and OAM_SCAN entered.
vblank_end(g, clocks) ==
    IF (g.ly + 1) % 256 > 153
      THEN [clocks |-> clocks - 456, mode |-> "OamScan", ly |-> 0,
            irq |-> IF OAM_INT \in g.lcd_status THEN {LCD} ELSE {},
            line |-> None, fault |-> "none"]
      ELSE [clocks |-> clocks - 456, mode |-> "VBlank", ly |-> (g.ly + 1) % 256,
            irq |-> {}, line |-> None, fault |-> "none"]

\* The match of Gpu::step on (mode, clocks): the new clock counter, mode
\* and LY, the interrupts requested and the line drawn.
gpu_match(g, clocks) ==
    CASE g.mode = "OamScan" /\ clocks >= 80 ->
           [clocks |-> clocks - 80, mode |-> "Drawing", ly |-> g.ly,
            irq |-> {}, line |-> None, fault |-> "none"]
      [] g.mode = "Drawing" /\ clocks >= 172 -> drawing_end(g, clocks)
      [] g.mode = "HBlank" /\ clocks >= 204 -> hblank_end(g, clocks)
      [] g.mode = "VBlank" /\ clocks >= 456 -> vblank_end(g, clocks)
      [] g.mode = "None" ->
           [clocks |-> 0, mode |-> "None", ly |-> g.ly, irq |-> {}, line |-> None, fault |-> "none"]
      [] OTHER ->
           [clocks |-> clocks, mode |-> g.mode, ly |-> g.ly, irq |-> {}, line |-> None,
            fault |-> "none"]

\* The end of Gpu::step, after the match gave r: the LYC check, the new
\* clock counter and mode, whether HBLANK was entered, and the HDMA run:
\* the request it returned and whether its pointer arithmetic overflowed.
gpu_step_end(g, r) ==
    LET enter_hblank == (g.mode # "HBlank" /\ r.mode = "HBlank")
        d == hdma_run(g.hdma, enter_hblank)
    IN  IF r.fault = "panic"
          THEN [gpu |-> g, irq |-> {}, line |-> None, enter_hblank |-> FALSE,
                dma |-> NoRequest, overflow |-> FALSE, fault |-> "panic"]
          ELSE [gpu |-> [g EXCEPT !.clocks = r.clocks, !.mode = r.mode, !.ly = r.ly,
                                  !.hdma = d.hdma],
                irq |-> r.irq \cup (IF LYC_INT \in g.lcd_status /\ g.lyc = r.ly
                                      THEN {LCD} ELSE {}),
                line |-> r.line,
                enter_hblank |-> enter_hblank,
                dma |-> d.req,
                overflow |-> d.overflow,
                fault |-> "none"]

\* The cycles past the end of a mode are dropped instead of carried into
\* the next mode.
drop_carry(g, r) == IF r.mode # g.mode \/ r.ly # g.ly THEN [r EXCEPT !.clocks = 0] ELSE r

gpu_step_no_carry(g, time) ==
    gpu_step_end(g, drop_carry(g, gpu_match(g, g.clocks + time)))

\* Gpu::step: the PPU afterwards, the interrupts it requested, the line it
\* drew and whether it entered HBLANK.
gpu_step(g, time) == gpu_step_end(g, gpu_match(g, g.clocks + time))

\* Mmu::gpu_draw, the drawing of the older revision of the PPU that mmu.rs
\* steps: the number of the line rendered, None past the last visible line.
\* It renders by itself and calls no extension.
gpu_draw(g) == IF g.ly >= VRAM_HEIGHT THEN None ELSE g.ly

\* The match of Mmu::gpu_step on the mode: as in Gpu::step (Mode::OAM is
\* OamScan, Mode::VRAM is Drawing, the flags hblank_interrupt ..
\* lyc_interrupt are the bits of lcd_status), but every arm that ends a
\* mode stores clocks 0: the cycles past the end of the mode are dropped.
mmu_gpu_match(g, clocks) ==
    CASE g.mode = "OamScan" /\ clocks >= 80 ->
           [clocks |-> 0, mode |-> "Drawing", ly |-> g.ly, irq |-> {}, line |-> None,
            fault |-> "none"]
      [] g.mode = "Drawing" /\ clocks >= 172 ->
           [clocks |-> 0, mode |-> "HBlank", ly |-> g.ly,
            irq |-> IF HBLANK_INT \in g.lcd_status THEN {LCD} ELSE {},
            line |-> gpu_draw(g), fault |-> "none"]
      [] g.mode = "HBlank" /\ clocks >= 204 -> [hblank_end(g, clocks) EXCEPT !.clocks = 0]
      [] g.mode = "VBlank" /\ clocks >= 456 -> [vblank_end(g, clocks) EXCEPT !.clocks = 0]
      [] g.mode = "None" ->
           [clocks |-> 0, mode |-> "None", ly |-> g.ly, irq |-> {}, line |-> None,
            fault |-> "none"]
      [] OTHER ->
           [clocks |-> clocks, mode |-> g.mode, ly |-> g.ly, irq |-> {}, line |-> None,
            fault |-> "none"]

\* The Hdma::run of Mmu::gpu_hdma_run: it is called inside the arm that goes
\* from Mode::VRAM to HBLANK and on no other step.  Hdma::run of that
\* revision takes no argument; it is the run of gpu.rs at an entry of
\* HBLANK.
mmu_gpu_hdma(g, r) ==
    IF g.mode = "Drawing" /\ r.mode = "HBlank"
      THEN hdma_run(g.hdma, TRUE)
      ELSE [hdma |-> g.hdma, req |-> NoRequest, overflow |-> FALSE]

\* Gpu::write_ctrl (0xff40): the PPU afterwards; the caller also removes
\* VBLANK from the interrupt requests.
write_ctrl(g, value) ==
    LET was == Bit(g.lcd_control, LCD_PPU_ENABLE) = 1
        now == Bit(value, LCD_PPU_ENABLE) = 1
        g1 == IF ~was /\ now THEN [g EXCEPT !.clocks = 0, !.mode = "HBlank"]
              ELSE IF was /\ ~now THEN [g EXCEPT !.mode = "None"]
              ELSE g
    IN  [g1 EXCEPT !.lcd_control = value]

\* Gpu::write_status (0xff41): LcdStatus::from_bits_truncate
write_status(g, value) ==
    [g EXCEPT !.lcd_status = {b \in {HBLANK_INT, VBLANK_INT, OAM_INT, LYC_INT} : Bit(value, b) = 1}]

\* Gpu::clear_ly (0xff44)
clear_ly(g) == [g EXCEPT !.ly = 0]

\* Gpu::write_lyc (0xff45)
write_lyc(g, v) == [g EXCEPT !.lyc = v]


(***************************************************************************)
(* OAM DMA (dma.rs, Mmu::dma_step).  mem holds the byte the bus returns at *)
(* each address: the handlers of ROM, VRAM and WRAM return the byte stored *)
(* there, 0xfe00..0xfe9f has no handler in the MMU and is plain RAM.       *)
(***************************************************************************)
ADDR_DMA == 65350    \* 0xff46
ADDR_OAM == 65024    \* 0xfe00
DMA_LENGTH == 160    \* 0xa0

\* Mmu::get8 of an address whose byte is stored: the array is zero after
\* construction.
ram_get8(r, addr) == IF addr \in DOMAIN r THEN r[addr] ELSE 0

\* Dma::on_write (0xff46): the engine afterwards; the write is blocked
\* from the RAM.  assert_eq!(addr, 0xff46) panics for any other address.
dma_on_write(d, addr, value) ==
    IF addr = ADDR_DMA THEN [dma |-> [d EXCEPT !.on = TRUE, !.src = value], fault |-> "none"]
    ELSE [dma |-> d, fault |-> "panic"]

\* Dma::on_read: MemRead::Replace(0)
dma_on_read(d, addr) == 0

(***************************************************************************)
(* Cartridge bank controllers (mbc.rs).  The ROM image is rom_len bytes    *)
(* whose byte i is RomByte(i); the cartridge RAM is the function of the    *)
(* bytes written so far (zero elsewhere).  A read gives the value and      *)
(* whether the handler panicked (an index past the end of the image or of  *)
(* the RAM, unreachable!, unimplemented!); a write gives the controller    *)
(* afterwards, the RAM images passed to the host's save_ram, and whether   *)
(* it panicked.                                                            *)
(***************************************************************************)
ROM_BANK_LENGTH == 16384   \* 0x4000
RAM_BANK_LENGTH == 8192    \* 0x2000

\* Byte i of the ROM image: the first byte of bank b is 7 * b + 1 mod 256,
\* different for every bank.
RomByte(i) == (7 * (i \div ROM_BANK_LENGTH) + 3 * (i % ROM_BANK_LENGTH) + 1) % 256

Max(a, b) == IF a >= b THEN a ELSE b

\* self.rom[i]: a slice index, which panics past the end
rom_index(m, i) == IF i < m.rom_len THEN Value(RomByte(i)) ELSE Panic

\* self.ram[i] of an array of len bytes
ram_index(m, i, len) == IF i < len THEN Value(ram_get8(m.ram, i)) ELSE Panic

Wrote(m) == [mbc |-> m, saved |-> <<>>, fault |-> "none"]

\* The write handler called hw.save_ram(self.ram)
Saved(m) == [mbc |-> m, saved |-> <<m.ram>>, fault |-> "none"]

WritePanic(m) == [mbc |-> m, saved |-> <<>>, fault |-> "panic"]

\* self.ram[i] = value on an array of len bytes
ram_store(m, i, value, len) ==
    IF i < len THEN Wrote([m EXCEPT !.ram = (i :> value) @@ @]) ELSE WritePanic(m)

\* Mbc1::new
Mbc1New(rom_len) ==
    [kind |-> "Mbc1", rom_len |-> rom_len, ram |-> NoMem, rom_bank |-> 0,
     ram_bank |-> 0, ram_enable |-> FALSE, ram_select |-> FALSE,
     use_boot_rom |-> TRUE]

\* The bank remap of 0x20, 0x40, 0x60 is left out.
mbc1_rom_bank_plain(m) == Max(m.rom_bank, 1)

\* The ROM bank an MBC1 read of 0x4000..0x7fff uses: bank 0 reads as 1,
\* banks 0x20, 0x40, 0x60 as the next one.
mbc1_rom_bank(m) ==
    IF Max(m.rom_bank, 1) \in {32, 64, 96} THEN Max(m.rom_bank, 1) + 1
    ELSE Max(m.rom_bank, 1)

\* Mbc1::on_read.  & (rom.len() - 1) is the remainder by the length of the
\* image, a power of two.
mbc1_on_read(m, addr) ==
    CASE addr <= 16383 -> rom_index(m, addr)
      [] addr \in 16384 .. 32767 ->
           rom_index(m, (mbc1_rom_bank(m) * ROM_BANK_LENGTH + (addr - 16384)) % m.rom_len)
      [] addr \in 40960 .. 49151 ->
           IF m.ram_enable
             THEN ram_index(m, (m.ram_bank * RAM_BANK_LENGTH + (addr - 40960)) % m.rom_len,
                            32768)
             ELSE Value(0)
      [] OTHER -> Panic

\* Mbc1::on_write
mbc1_on_write(m, addr, value) ==
    CASE addr <= 8191 ->
           IF value % 16 = 10 THEN Wrote([m EXCEPT !.ram_enable = TRUE])
           ELSE Saved([m EXCEPT !.ram_enable = FALSE])
      [] addr \in 8192 .. 16383 ->
           Wrote([m EXCEPT !.rom_bank = (@ - (@ % 32)) + (value % 32)])
      [] addr \in 16384 .. 24575 ->
           IF m.ram_select THEN Wrote([m EXCEPT !.ram_bank = value % 4])
           ELSE Wrote([m EXCEPT !.rom_bank = ((@ \div 128) * 128) + ((value % 4) * 32) + (@ % 32)])
      [] addr \in 24576 .. 32767 ->
           IF value = 0 THEN Wrote([m EXCEPT !.ram_select = FALSE])
           ELSE IF value = 1 THEN Wrote([m EXCEPT !.ram_select = TRUE])
           ELSE WritePanic(m)
      [] addr \in 40960 .. 49151 ->
           IF m.ram_enable
             THEN ram_store(m, m.ram_bank * RAM_BANK_LENGTH + (addr - 40960), value, 32768)
             ELSE Wrote(m)
      [] OTHER -> WritePanic(m)

\* Mbc2::new
Mbc2New(rom_len) ==
    [kind |-> "Mbc2", rom_len |-> rom_len, ram |-> NoMem, rom_bank |-> 1,
     ram_enable |-> FALSE, use_boot_rom |-> TRUE]

\* Mbc2::on_read: the built-in RAM is 0xa000..0xa1ff, 4 bits wide
mbc2_on_read(m, addr) ==
    CASE addr <= 16383 -> rom_index(m, addr)
      [] addr \in 16384 .. 32767 ->
           rom_index(m, Max(m.rom_bank, 1) * ROM_BANK_LENGTH + (addr - 16384))
      [] addr \in 40960 .. 41471 ->
           IF m.ram_enable THEN Value(ram_get8(m.ram, addr - 40960) % 16) ELSE Value(0)
      [] OTHER -> Panic

\* Mbc2::on_write: bit 8 of the address selects RAM enable or ROM bank
mbc2_on_write(m, addr, value) ==
    CASE addr <= 8191 ->
           IF Bit(addr, 8) = 0
             THEN IF value % 16 = 10 THEN Wrote([m EXCEPT !.ram_enable = TRUE])
                  ELSE Saved([m EXCEPT !.ram_enable = FALSE])
             ELSE Wrote(m)
      [] addr \in 8192 .. 16383 ->
           IF Bit(addr, 8) = 1 THEN Wrote([m EXCEPT !.rom_bank = Max(value % 16, 1)])
           ELSE Wrote(m)
      [] addr \in 16384 .. 32767 -> Wrote(m)
      [] addr \in 40960 .. 41471 ->
           IF m.ram_enable THEN ram_store(m, addr - 40960, value % 16, 512) ELSE Wrote(m)
      [] OTHER -> WritePanic(m)

\* Mbc3::new.  rtc holds the clock registers 0x08..0x0c (rtc_secs, rtc_mins,
\* rtc_hours, rtc_day_low, rtc_day_high).  hw_clock is what Hardware::clock
\* returns, secs * 1_000_000 + micros microseconds, kept as the two parts;
\* new() ends with update_epoch, which makes epoch the clock / 1_000_000.
Mbc3New(rom_len) ==
    [kind |-> "Mbc3", rom_len |-> rom_len, ram |-> NoMem, rom_bank |-> 0,
     enable |-> FALSE, select |-> 0, rtc |-> [r \in 8 .. 12 |-> 0],
     epoch |-> 0, hw_clock |-> [secs |-> 0, micros |-> 0], prelatch |-> FALSE, use_boot_rom |-> TRUE]

\* Mbc3::on_read
mbc3_on_read(m, addr) ==
    CASE addr <= 16383 -> rom_index(m, addr)
      [] addr \in 16384 .. 32767 ->
           rom_index(m, Max(m.rom_bank, 1) * ROM_BANK_LENGTH + (addr - 16384))
      [] addr \in 40960 .. 49151 ->
           IF m.select \in 0 .. 3
             THEN ram_index(m, m.select * RAM_BANK_LENGTH + (addr - 40960), 32768)
           ELSE IF m.select \in 8 .. 12 THEN Value(m.rtc[m.select])
           ELSE Panic
      [] OTHER -> Panic

\* `&` of the source on unsigned integers
RECURSIVE BitAnd(_, _)
BitAnd(a, b) ==
    IF a = 0 \/ b = 0 THEN 0
    ELSE (a % 2) * (b % 2) + 2 * BitAnd(a \div 2, b \div 2)

\* Mbc3::epoch: hw.clock() / 1_000_000, the whole seconds of the host's clock
mbc3_epoch(m) == m.hw_clock.secs + m.hw_clock.micros \div 1000000

\* Mbc3::update_epoch
update_epoch(m) == [m EXCEPT !.epoch = mbc3_epoch(m)]

\* Mbc3::day: ((rtc_day_high & 1) << 8) & rtc_day_low
day(m) == BitAnd((m.rtc[12] % 2) * 256, m.rtc[11])

\* Mbc3::dhms_to_secs
dhms_to_secs(m) == (day(m) * 24 + m.rtc[10]) * 3600 + m.rtc[9] * 60 + m.rtc[8]

\* Mbc3::secs_to_dhms; `as u8` keeps the low eight bits
secs_to_dhms(m, secs) ==
    [m EXCEPT !.rtc =
        [r \in 8 .. 12 |->
            CASE r = 8 -> (secs % 60) % 256
              [] r = 9 -> ((secs \div 60) % 60) % 256
              [] r = 10 -> ((secs \div 3600) % 24) % 256
              [] r = 11 -> (secs \div 86400) % 256
              [] r = 12 -> (m.rtc[12] - (m.rtc[12] % 2)) + (((secs \div 86400) \div 256) % 2)]]

\* 2^64 = U64_DAYS * 86400 + U64_REM, and U64_DAYS % 512 = U64_DAYS_9
U64_REM == 25216
U64_DAYS_9 == 137

\* Mbc3::secs_to_dhms of the u64 that a sum of -j wraps to, 2^64 - j
secs_to_dhms_wrapped(m, j) ==
    LET t == U64_REM - j
        borrow == IF t >= 0 THEN 0 ELSE ((0 - t) + 86399) \div 86400
        rem == t + borrow * 86400
        d == (U64_DAYS_9 + 512 * borrow - borrow) % 512
    IN  [m EXCEPT !.rtc =
            [r \in 8 .. 12 |->
                CASE r = 8 -> rem % 60
                  [] r = 9 -> (rem \div 60) % 60
                  [] r = 10 -> (rem \div 3600) % 24
                  [] r = 11 -> d % 256
                  [] r = 12 -> (m.rtc[12] - (m.rtc[12] % 2)) + ((d \div 256) % 2)]]

\* Mbc3::latch.  With a host clock that went back, new_epoch - epoch is a
\* u64 subtraction that overflows: the fault "overflow" tells it, which is
\* a panic in a debug build; in a release build the difference wraps to
\* 2^64 - k, the sum last_secs + elapsed wraps again, and the registers
\* are set from last_secs - k or, when that is negative, from the u64 it
\* wraps to (the result given here).
latch(m) ==
    LET new_epoch == IF Bit(m.rtc[12], 6) = 0 THEN mbc3_epoch(m) ELSE m.epoch
        elapsed == new_epoch - m.epoch
        last_day == day(m)
        last_secs == dhms_to_secs(m)
        t == IF last_secs + elapsed >= 0
               THEN secs_to_dhms(m, last_secs + elapsed)
               ELSE secs_to_dhms_wrapped(m, 0 - (last_secs + elapsed))
        new_day == day(t)
        u == IF new_day < last_day
               THEN [t EXCEPT !.rtc[12] = @ + 128 * (1 - Bit(@, 7))]
               ELSE t
    IN  IF elapsed < 0
          THEN [mbc |-> [u EXCEPT !.epoch = new_epoch], saved |-> <<>>,
                fault |-> "overflow"]
          ELSE Wrote([u EXCEPT !.epoch = new_epoch])

\* Mbc3::on_write
mbc3_on_write(m, addr, value) ==
    CASE addr <= 8191 ->
           IF value = 0 THEN Wrote([m EXCEPT !.enable = FALSE])
           ELSE IF value = 10 THEN Wrote([m EXCEPT !.enable = TRUE])
           ELSE Wrote(m)
      [] addr \in 8192 .. 16383 -> Wrote([m EXCEPT !.rom_bank = value % 128])
      [] addr \in 16384 .. 24575 -> Saved([m EXCEPT !.select = value])
      [] addr \in 24576 .. 32767 ->
           IF m.prelatch
             THEN IF value = 1
                    THEN [latch(m) EXCEPT !.mbc.prelatch = FALSE]
                    ELSE Wrote([m EXCEPT !.prelatch = FALSE])
           ELSE IF value = 0 THEN Wrote([m EXCEPT !.prelatch = TRUE])
           ELSE Wrote(m)
      [] addr \in 40960 .. 49151 ->
           IF m.select \in 0 .. 3
             THEN ram_store(m, m.select * RAM_BANK_LENGTH + (addr - 40960), value, 32768)
           ELSE IF m.select \in 8 .. 12
             THEN Wrote(update_epoch([m EXCEPT !.rtc[m.select] = value]))
           ELSE WritePanic(m)
      [] OTHER -> WritePanic(m)

\* Mbc5::new
Mbc5New(rom_len) ==
    [kind |-> "Mbc5", rom_len |-> rom_len, ram |-> NoMem, rom_bank |-> 0,
     ram_bank |-> 0, ram_enable |-> FALSE, use_boot_rom |-> TRUE]

\* Mbc5::on_read
mbc5_on_read(m, addr) ==
    CASE addr <= 16383 -> rom_index(m, addr)
      [] addr \in 16384 .. 32767 ->
           rom_index(m, m.rom_bank * ROM_BANK_LENGTH + (addr - 16384))
      [] addr \in 40960 .. 49151 ->
           IF m.ram_enable
             THEN ram_index(m, m.ram_bank * RAM_BANK_LENGTH + (addr - 40960), 131072)
             ELSE Value(0)
      [] OTHER -> Panic

\* Mbc5::on_write
mbc5_on_write(m, addr, value) ==
    CASE addr <= 8191 ->
           IF value % 16 = 10 THEN Wrote([m EXCEPT !.ram_enable = TRUE])
           ELSE Saved([m EXCEPT !.ram_enable = FALSE])
      [] addr \in 8192 .. 12287 ->
           Wrote([m EXCEPT !.rom_bank = ((@ \div 256) * 256) + value])
      [] addr \in 12288 .. 16383 ->
           Wrote([m EXCEPT !.rom_bank = ((@ \div 512) * 512) + ((value % 2) * 256) + (@ % 256)])
      [] addr \in 16384 .. 24575 -> Wrote([m EXCEPT !.ram_bank = value % 16])
      [] addr \in 40960 .. 49151 ->
           IF m.ram_enable
             THEN ram_store(m, m.ram_bank * RAM_BANK_LENGTH + (addr - 40960), value, 131072)
             ELSE Wrote(m)
      [] OTHER -> WritePanic(m)

\* MbcType::on_read; MbcNone reads the image and nothing else.
cartridge_on_read(m, addr) ==
    CASE m.kind = "Mbc1" -> mbc1_on_read(m, addr)
      [] m.kind = "Mbc2" -> mbc2_on_read(m, addr)
      [] m.kind = "Mbc3" -> mbc3_on_read(m, addr)
      [] m.kind = "Mbc5" -> mbc5_on_read(m, addr)
      [] OTHER -> IF addr <= 32767 THEN rom_index(m, addr) ELSE Panic

\* MbcType::on_write; every write to MbcNone is unreachable!.
cartridge_on_write(m, addr, value) ==
    CASE m.kind = "Mbc1" -> mbc1_on_write(m, addr, value)
      [] m.kind = "Mbc2" -> mbc2_on_write(m, addr, value)
      [] m.kind = "Mbc3" -> mbc3_on_write(m, addr, value)
      [] m.kind = "Mbc5" -> mbc5_on_write(m, addr, value)
      [] OTHER -> WritePanic(m)

\* Mbc::in_boot_rom, without the feature "color"
in_boot_rom(addr) == addr < 256

\* Byte addr of the boot ROM; its image is not part of the model and the
\* specifications do not read it.
BootByte(addr) == 0

\* Mbc::on_read
mbc_on_read(m, addr) ==
    IF m.use_boot_rom /\ in_boot_rom(addr) THEN Value(BootByte(addr))
    ELSE cartridge_on_read(m, addr)

\* Mbc::on_write: 0xff50 turns the boot ROM off
mbc_on_write(m, addr, value) ==
    IF m.use_boot_rom /\ addr < 256 THEN WritePanic(m)
    ELSE IF addr = 65360 THEN Wrote([m EXCEPT !.use_boot_rom = FALSE])
    ELSE cartridge_on_write(m, addr, value)

(***************************************************************************)
(* Serial port (serial.rs).  rx is what the host's recv_byte returns: None *)
(* for Option::None, else the byte.  A handler gives the port afterwards,  *)
(* the interrupts requested and the bytes passed to the host's send_byte.  *)
(***************************************************************************)
ADDR_SB == 65281   \* 0xff01
ADDR_SC == 65282   \* 0xff02
SERIAL_CLOCKS == 4096   \* 512 * 8

\* Serial::on_read: SB or SC; any other address is unreachable!()
serial_on_read(s, addr) ==
    IF addr = ADDR_SB THEN [value |-> s.data, fault |-> "none"]
    ELSE IF addr = ADDR_SC THEN [value |-> s.ctrl, fault |-> "none"]
    ELSE [value |-> None, fault |-> "panic"]

\* Serial::on_write: the port afterwards, the bytes passed to send_byte
\* and whether the handler panicked (an address that is neither SB nor SC
\* is unreachable!()).
serial_on_write(s, addr, value, rx) ==
    IF addr = ADDR_SB
      THEN [serial |-> [s EXCEPT !.data = value], sent |-> <<>>, fault |-> "none"]
    ELSE IF addr # ADDR_SC THEN [serial |-> s, sent |-> <<>>, fault |-> "panic"]
    ELSE IF Bit(value, 7) = 1 /\ Bit(value, 0) = 1
      THEN [serial |-> [s EXCEPT !.ctrl = value, !.clock = SERIAL_CLOCKS,
                                 !.recv = IF rx = None THEN 255 ELSE rx],
            sent |-> <<s.data>>, fault |-> "none"]
    ELSE [serial |-> [s EXCEPT !.ctrl = value], sent |-> <<>>, fault |-> "none"]

\* End of transfer: SB takes the byte received, SC bit 7 is cleared and the
\* SERIAL interrupt requested.
serial_done(s, data, sent) ==
    [serial |-> [s EXCEPT !.data = data, !.ctrl = @ - 128], irq |-> {SERIAL},
     sent |-> sent]

\* Serial::step
serial_step(s, time, rx) ==
    IF Bit(s.ctrl, 7) = 0 THEN [serial |-> s, irq |-> {}, sent |-> <<>>]
    ELSE IF Bit(s.ctrl, 0) = 1
      THEN IF s.clock < time THEN serial_done(s, s.recv, <<>>)
           ELSE [serial |-> [s EXCEPT !.clock = @ - time], irq |-> {}, sent |-> <<>>]
    ELSE IF rx # None THEN serial_done(s, rx, <<s.data>>)
    ELSE [serial |-> s, irq |-> {}, sent |-> <<>>]

(***************************************************************************)
(* Joypad (joypad.rs).  keys is the set of keys for which the host's       *)
(* joypad_pressed returns true.                                            *)
(***************************************************************************)
ADDR_JOYP == 65280   \* 0xff00

\* Bit i of a readback row: 0 when the key of that line is pressed.
key_line(keys, key, i) == IF key \in keys THEN 0 ELSE Pow2(i)

\* Joypad::check
joypad_check(j, keys) ==
    IF Bit(j.select, 4) = 0
      THEN key_line(keys, "Right", 0) + key_line(keys, "Left", 1)
           + key_line(keys, "Up", 2) + key_line(keys, "Down", 3)
    ELSE IF Bit(j.select, 5) = 0
      THEN key_line(keys, "A", 0) + key_line(keys, "B", 1)
           + key_line(keys, "Select", 2) + key_line(keys, "Start", 3)
    ELSE 15

\* Joypad::poll requesting on any change of the readback instead of a
\* falling line.
joypad_poll_any_change(j, keys) ==
    [joypad |-> [j EXCEPT !.pressed = joypad_check(j, keys)],
     irq |-> IF j.pressed # joypad_check(j, keys) THEN {JOYPAD} ELSE {}]

\* Joypad::poll
joypad_poll(j, keys) ==
    [joypad |-> [j EXCEPT !.pressed = joypad_check(j, keys)],
     irq |-> IF \E i \in 0 .. 3 : Bit(j.pressed, i) # 0
                                  /\ Bit(joypad_check(j, keys), i) = 0
               THEN {JOYPAD} ELSE {}]

\* Joypad::on_write
joypad_on_write(j, addr, value) ==
    IF addr = ADDR_JOYP THEN [j EXCEPT !.select = value - (value % 16)] ELSE j

(***************************************************************************)
(* Sound mixer (sound.rs).  A unit's stream is None or the channel's       *)
(* stream with everything its next reads: the registers it was restarted   *)
(* with, the sweep, the envelope and the length counter with their clocks, *)
(* the index into the waveform and the noise generator's shift register.   *)
(* A sample depends on the streams and the host's sampling rate only.      *)
(***************************************************************************)
ADDR_NR50 == 65316   \* 0xff24
ADDR_NR51 == 65317   \* 0xff25
ADDR_NR52 == 65318   \* 0xff26
MIXER_MAX == 2520    \* MixerStream::MAX, 840 * 3
MIXER_ASSERT == 840

\* Mixer::get_volume
mixer_get_volume(m, id) ==
    (IF Bit(m.so_mask, id) # 0 THEN m.so1_volume ELSE 0)
    + (IF Bit(m.so_mask, id + 4) # 0 THEN m.so2_volume ELSE 0)

\* Mixer::update_volume
mixer_update_volume(m) ==
    [m EXCEPT !.volume = [id \in 0 .. 3 |-> mixer_get_volume(m, id)]]

\* Mixer::on_write taking the SO1 volume from bits 4-6 without the shift.
mixer_on_write_no_shift(m, addr, value) ==
    IF addr = ADDR_NR50
      THEN [mixer |-> mixer_update_volume(
                          [m EXCEPT !.so1_volume = (value % 128) - (value % 16),
                                    !.so2_volume = value % 8]),
            fault |-> "none"]
    ELSE IF addr = ADDR_NR51
      THEN [mixer |-> mixer_update_volume([m EXCEPT !.so_mask = value]), fault |-> "none"]
    ELSE IF addr = ADDR_NR52
      THEN [mixer |-> mixer_update_volume([m EXCEPT !.enable = (Bit(value, 7) # 0)]),
            fault |-> "none"]
    ELSE [mixer |-> m, fault |-> "panic"]

\* Mixer::on_write (0xff24, 0xff25, 0xff26): the mixer afterwards; any
\* other address is unreachable!() and panics.
mixer_on_write(m, addr, value) ==
    IF addr = ADDR_NR50
      THEN [mixer |-> mixer_update_volume(
                          [m EXCEPT !.so1_volume = (value % 128) \div 16,
                                    !.so2_volume = value % 8]),
            fault |-> "none"]
    ELSE IF addr = ADDR_NR51
      THEN [mixer |-> mixer_update_volume([m EXCEPT !.so_mask = value]), fault |-> "none"]
    ELSE IF addr = ADDR_NR52
      THEN [mixer |-> mixer_update_volume([m EXCEPT !.enable = (Bit(value, 7) # 0)]),
            fault |-> "none"]
    ELSE [mixer |-> m, fault |-> "panic"]

\* Mixer::restart_tone1, restart_tone2, restart_wave, restart_noise
mixer_restart(m, id, s) == [m EXCEPT !.stream[id] = s]

\* Sweep::new
SweepNew(enable, freq, time, sub, shift) ==
    [enable |-> enable, freq |-> freq, time |-> time, sub |-> sub, shift |-> shift,
     clock |-> 0]

\* The frequency one step of the sweep moves to (saturating_sub and
\* saturating_add on usize)
sweep_shifted(s) ==
    IF s.sub THEN Max(s.freq - s.freq \div Pow2(s.shift), 0)
    ELSE s.freq + s.freq \div Pow2(s.shift)

\* Sweep::freq: the sweep afterwards (its freq is the value returned)
sweep_freq(s, rate) ==
    IF ~ s.enable \/ s.time = 0 \/ s.shift = 0 THEN s
    ELSE IF s.clock + 1 < (rate * s.time) \div 128 THEN [s EXCEPT !.clock = @ + 1]
    ELSE IF sweep_shifted(s) >= 2048 \/ sweep_shifted(s) = 0
      THEN [s EXCEPT !.clock = @ + 1 - (rate * s.time) \div 128, !.enable = FALSE, !.freq = 0]
    ELSE [s EXCEPT !.clock = @ + 1 - (rate * s.time) \div 128, !.freq = sweep_shifted(s)]

\* Envelop::new
EnvelopNew(amp, count, inc) == [amp |-> amp, count |-> count, inc |-> inc, clock |-> 0]

\* Envelop::amp: the envelope afterwards (its amp is the value returned)
envelop_amp(e, rate) ==
    IF e.amp = 0 \/ e.count = 0 THEN e
    ELSE IF e.clock + 1 < (rate * e.count) \div 64 THEN [e EXCEPT !.clock = @ + 1]
    ELSE [e EXCEPT !.clock = @ + 1 - (rate * e.count) \div 64,
                   !.amp = IF e.inc THEN (IF @ + 1 > 15 THEN 15 ELSE @ + 1)
                                    ELSE Max(@ - 1, 0)]

\* Counter::new
CounterNew(enable, count, base) ==
    [enable |-> enable, count |-> count, base |-> base, clock |-> 0]

\* Counter::stop: the counter afterwards and the value returned
counter_stop(c, rate) ==
    IF ~ c.enable THEN [counter |-> c, stop |-> FALSE]
    ELSE IF c.clock >= (rate * (c.base - c.count)) \div 256
      THEN [counter |-> c, stop |-> TRUE]
    ELSE [counter |-> [c EXCEPT !.clock = @ + 1], stop |-> FALSE]

\* WaveIndex::new
WaveIndexNew == [clock |-> 0, index |-> 0]

\* WaveIndex::index: the index afterwards (its index is the value returned)
wave_index(w, rate, freq, max) ==
    IF w.clock + freq >= rate
      THEN [clock |-> w.clock + freq - rate, index |-> (w.index + 1) % max]
    ELSE [w EXCEPT !.clock = @ + freq]

\* LFSR::new
LFSRNew(short) == [value |-> 57005, short |-> short]

\* LFSR::high
lfsr_high(l) == l.value % 2 = 0

\* The exclusive or of four bits
Xor4(a, b, c, d) == (a + b + c + d) % 2

\* LFSR::update.  In the short mode the fourth tap is (value & 0x10) >> 5.
lfsr_update(l) ==
    IF l.short
      THEN [l EXCEPT !.value = (@ % 256) \div 2
                               + 128 * Xor4(Bit(@, 0), Bit(@, 2), Bit(@, 3),
                                            (Bit(@, 4) * 16) \div 32)]
    ELSE [l EXCEPT !.value = @ \div 2
                             + 32768 * Xor4(Bit(@, 0), Bit(@, 2), Bit(@, 3), Bit(@, 5))]

\* RandomWave::new
RandomWaveNew(short) == [lfsr |-> LFSRNew(short), clock |-> 0]

\* RandomWave::high: the generator afterwards (LFSR::high of its register
\* is the value returned)
random_wave_high(w, rate, freq) ==
    IF w.clock + freq >= rate
      THEN [lfsr |-> lfsr_update(w.lfsr), clock |-> w.clock + freq - rate]
    ELSE [w EXCEPT !.clock = @ + freq]

\* ToneStream::new; sweep is true for tone 1 and false for tone 2
ToneStreamNew(t, sweep) ==
    [kind |-> "tone", tone |-> t,
     sweep |-> SweepNew(sweep, 131072 \div (2048 - t.freq), t.sweep_time, t.sweep_sub,
                        t.sweep_shift),
     env |-> EnvelopNew(t.env_init, t.env_count, t.env_inc),
     counter |-> CounterNew(t.counter, t.sound_len, 64),
     index |-> WaveIndexNew]

\* WaveStream::new
WaveStreamNew(w) ==
    [kind |-> "wave", wave |-> w, counter |-> CounterNew(w.counter, w.sound_len, 256),
     index |-> WaveIndexNew]

\* NoiseStream::new
NoiseStreamNew(nz) ==
    [kind |-> "noise", noise |-> nz,
     env |-> EnvelopNew(nz.env_init, nz.env_count, nz.env_inc),
     counter |-> CounterNew(nz.counter, nz.sound_len, 64),
     wave |-> RandomWaveNew(nz.step)]

\* The last index of the low part of the square wave for a duty
tone_duty(wave_duty) ==
    CASE wave_duty = 0 -> 0
      [] wave_duty = 1 -> 1
      [] wave_duty = 2 -> 3
      [] wave_duty = 3 -> 5

\* ToneStream::next: the stream afterwards and the sample
tone_stream_next(s, rate) ==
    LET Sampled(s1) ==
            [stream |-> s1,
             amp |-> IF s1.index.index <= tone_duty(s.tone.wave_duty) THEN 0
                     ELSE s1.env.amp]
    IN  IF counter_stop(s.counter, rate).stop THEN [stream |-> s, amp |-> 0]
        ELSE Sampled([s EXCEPT !.counter = counter_stop(@, rate).counter,
                               !.env = envelop_amp(@, rate),
                               !.sweep = sweep_freq(@, rate),
                               !.index = wave_index(@, rate,
                                                    sweep_freq(s.sweep, rate).freq * 8, 8)])

\* The sample of the wave buffer at index (0..31): the high nibble first
wave_sample(buf, index) ==
    IF index % 2 = 0 THEN buf[index \div 2] \div 16 ELSE buf[index \div 2] % 16

\* WaveStream::next
wave_stream_next(s, rate) ==
    LET Sampled(s1) ==
            [stream |-> s1,
             amp |-> CASE s.wave.amp_shift = 0 -> 0
                       [] s.wave.amp_shift = 1 -> wave_sample(s.wave.wavebuf, s1.index.index)
                       [] s.wave.amp_shift = 2 ->
                            wave_sample(s.wave.wavebuf, s1.index.index) \div 2
                       [] s.wave.amp_shift = 3 ->
                            wave_sample(s.wave.wavebuf, s1.index.index) \div 4]
    IN  IF ~ s.wave.enable \/ counter_stop(s.counter, rate).stop
          THEN [stream |-> s, amp |-> 0]
        ELSE Sampled([s EXCEPT !.counter = counter_stop(@, rate).counter,
                               !.index = wave_index(@, rate,
                                                    (65536 \div (2048 - s.wave.freq)) * 32,
                                                    32)])

\* The shift frequency of the noise generator, 524288 Hz / r / 2 ^ (s + 1)
\* with r = 0 taken as 0.5
noise_freq(nz) ==
    IF nz.div_freq = 0 THEN ((524288 * 5) \div 10) \div Pow2(nz.shift_freq + 1)
    ELSE (524288 \div nz.div_freq) \div Pow2(nz.shift_freq + 1)

\* NoiseStream::next
noise_stream_next(s, rate) ==
    LET Sampled(s1) ==
            [stream |-> s1, amp |-> IF lfsr_high(s1.wave.lfsr) THEN s1.env.amp ELSE 0]
    IN  IF counter_stop(s.counter, rate).stop THEN [stream |-> s, amp |-> 0]
        ELSE Sampled([s EXCEPT !.counter = counter_stop(@, rate).counter,
                               !.env = envelop_amp(@, rate),
                               !.wave = random_wave_high(@, rate, noise_freq(s.noise))])

\* Whether the length counter stops the stream s at this sample (the wave
\* stream asks its counter only while the channel is enabled)
stream_stopped(s, rate) ==
    /\ s.kind = "wave" => s.wave.enable
    /\ counter_stop(s.counter, rate).stop

\* Unit::on
unit_on(m, id) == m.stream[id] # NoStream

\* Unit::next: the stream afterwards and the sample (0 without a stream)
unit_next(m, id, rate) ==
    IF m.stream[id] = NoStream THEN [stream |-> NoStream, amp |-> 0]
    ELSE IF id = 2 THEN wave_stream_next(m.stream[id], rate)
    ELSE IF id = 3 THEN noise_stream_next(m.stream[id], rate)
    ELSE tone_stream_next(m.stream[id], rate)

\* MixerStream::volume (u16)
mixer_stream_volume(amp, vol) == (amp * vol) % 65536

\* The sum formed by MixerStream::next, the noise halved
mixer_stream_sum(m, rate) ==
    mixer_stream_volume(unit_next(m, 0, rate).amp, m.volume[0])
    + mixer_stream_volume(unit_next(m, 1, rate).amp, m.volume[1])
    + mixer_stream_volume(unit_next(m, 2, rate).amp, m.volume[2])
    + mixer_stream_volume(unit_next(m, 3, rate).amp, m.volume[3]) \div 2

\* MixerStream::next: the mixer afterwards (every unit's stream has taken
\* its step before the assertion), the sum and whether the assertion
\* vol <= 840 failed (no sample is returned then)
mixer_stream_next(m, rate) ==
    [mixer |-> [m EXCEPT !.stream = [id \in 0 .. 3 |-> unit_next(m, id, rate).stream]],
     vol |-> mixer_stream_sum(m, rate),
     fault |-> IF mixer_stream_sum(m, rate) <= MIXER_ASSERT THEN "none" ELSE "panic"]

(***************************************************************************)
(* The mixer of apu/mixer.rs: NR50 is kept as written, the stream has an   *)
(* enable of its own and the unit volumes follow the registers only while  *)
(* the mixer is enabled.  The channel streams it holds come from           *)
(* super::tone, super::wave and super::noise; they are taken to be the     *)
(* streams of sound.rs.                                                    *)
(***************************************************************************)
\* Mixer::new and MixerStream::new of apu/mixer.rs
ApuMixerNew ==
    [ctrl |-> 0, so1_volume |-> 0, so2_volume |-> 0, so_mask |-> 0, enable |-> FALSE,
     stream_enable |-> FALSE, volume |-> [id \in 0 .. 3 |-> 0],
     stream |-> [id \in 0 .. 3 |-> NoStream]]

\* Mixer::update_stream
apu_update_stream(m) ==
    IF m.enable
      THEN [m EXCEPT !.stream_enable = TRUE,
                     !.volume = [id \in 0 .. 3 |-> mixer_get_volume(m, id)]]
    ELSE [m EXCEPT !.stream_enable = FALSE]

\* Mixer::write_ctrl of apu/mixer.rs (NR50)
apu_write_ctrl(m, value) ==
    apu_update_stream([m EXCEPT !.ctrl = value, !.so1_volume = (value % 128) \div 16,
                                !.so2_volume = value % 8])

\* Mixer::write_so_mask (NR51)
apu_write_so_mask(m, value) == apu_update_stream([m EXCEPT !.so_mask = value])

\* Mixer::enable
apu_enable(m, enable) == apu_update_stream([m EXCEPT !.enable = enable])

\* Mixer::clear: the registers but enable are zeroed and every unit loses
\* its stream; the unit volumes and the stream's enable stay
apu_clear(m) ==
    [m EXCEPT !.ctrl = 0, !.so1_volume = 0, !.so2_volume = 0, !.so_mask = 0,
              !.stream = [id \in 0 .. 3 |-> NoStream]]

\* MixerStream::next of apu/mixer.rs: 0 while the stream is disabled (no
\* unit takes a step then)
apu_stream_next(m, rate) ==
    IF m.stream_enable THEN mixer_stream_next(m, rate)
    ELSE [mixer |-> m, vol |-> 0, fault |-> "none"]

\* Mixer::on_read
mixer_on_read(m, addr) ==
    IF addr = ADDR_NR51 THEN Value(m.so_mask)
    ELSE IF addr = ADDR_NR52
      THEN Value((IF m.enable THEN 128 ELSE 0)
                 + (IF unit_on(m, 0) THEN 8 ELSE 0)
                 + (IF unit_on(m, 1) THEN 4 ELSE 0)
                 + (IF unit_on(m, 2) THEN 2 ELSE 0)
                 + (IF unit_on(m, 3) THEN 1 ELSE 0))
    ELSE Panic

\* (freq & !0x700) | ((value & 7) << 8)
freq_high(freq, value) == freq - ((freq \div 256) % 8) * 256 + (value % 8) * 256

\* Tone::on_write: the registers afterwards, whether the channel restarts
\* and whether the handler panicked (an address outside base .. base + 4
\* is unreachable!()).
tone_on_write(t, base, addr, value) ==
    CASE addr = base ->
           [tone |-> [t EXCEPT !.sweep_time = (value \div 16) % 8,
                               !.sweep_sub = (Bit(value, 3) # 0),
                               !.sweep_shift = value % 8],
            restart |-> FALSE, fault |-> "none"]
      [] addr = base + 1 ->
           [tone |-> [t EXCEPT !.wave_duty = value \div 64, !.sound_len = value % 32],
            restart |-> FALSE, fault |-> "none"]
      [] addr = base + 2 ->
           [tone |-> [t EXCEPT !.env_init = value \div 16, !.env_inc = (Bit(value, 3) # 0),
                               !.env_count = value % 8],
            restart |-> FALSE, fault |-> "none"]
      [] addr = base + 3 ->
           [tone |-> [t EXCEPT !.freq = (@ \div 256) * 256 + value], restart |-> FALSE,
            fault |-> "none"]
      [] addr = base + 4 ->
           [tone |-> [t EXCEPT !.counter = (Bit(value, 6) # 0),
                               !.freq = freq_high(@, value)],
            restart |-> Bit(value, 7) # 0, fault |-> "none"]
      [] OTHER -> [tone |-> t, restart |-> FALSE, fault |-> "panic"]

\* Noise::on_write (0xff20..0xff23)
noise_on_write(t, addr, value) ==
    CASE addr = 65312 ->
           [tone |-> [t EXCEPT !.sound_len = value % 32], restart |-> FALSE,
            fault |-> "none"]
      [] addr = 65313 ->
           [tone |-> [t EXCEPT !.env_init = value \div 16, !.env_inc = (Bit(value, 3) # 0),
                               !.env_count = value % 8],
            restart |-> FALSE, fault |-> "none"]
      [] addr = 65314 ->
           [tone |-> [t EXCEPT !.shift_freq = value \div 16, !.step = (Bit(value, 3) # 0),
                               !.div_freq = value % 8],
            restart |-> FALSE, fault |-> "none"]
      [] addr = 65315 ->
           [tone |-> [t EXCEPT !.counter = (Bit(value, 6) # 0)],
            restart |-> Bit(value, 7) # 0, fault |-> "none"]
      [] OTHER -> [tone |-> t, restart |-> FALSE, fault |-> "panic"]

\* Wave::on_write (0xff1a..0xff1e and the wave RAM 0xff30..0xff3f)
wave_on_write(w, addr, value) ==
    CASE addr = 65306 ->
           [wave |-> [w EXCEPT !.enable = (Bit(value, 7) # 0)], restart |-> TRUE,
            fault |-> "none"]
      [] addr = 65307 ->
           [wave |-> [w EXCEPT !.sound_len = value], restart |-> FALSE, fault |-> "none"]
      [] addr = 65308 ->
           [wave |-> [w EXCEPT !.amp_shift = (value \div 32) % 4], restart |-> FALSE,
            fault |-> "none"]
      [] addr = 65309 ->
           [wave |-> [w EXCEPT !.freq = (@ \div 256) * 256 + value], restart |-> FALSE,
            fault |-> "none"]
      [] addr = 65310 ->
           [wave |-> [w EXCEPT !.counter = (Bit(value, 6) # 0),
                               !.freq = freq_high(@, value)],
            restart |-> Bit(value, 7) # 0, fault |-> "none"]
      [] addr \in 65328 .. 65343 ->
           [wave |-> [w EXCEPT !.wavebuf[addr - 65328] = value], restart |-> FALSE,
            fault |-> "none"]
      [] OTHER -> [wave |-> w, restart |-> FALSE, fault |-> "panic"]

\* Sound::on_write: the registers and the mixer afterwards.  Every channel
\* handler is called with an address of its own range, so that none
\* panics; an address of no range is logged and ignored.
sound_on_write(s, m, addr, value) ==
    CASE addr \in 65296 .. 65300 ->
           [sound |-> [s EXCEPT !.tone1 = tone_on_write(@, 65296, addr, value).tone],
            mixer |-> IF tone_on_write(s.tone1, 65296, addr, value).restart
                        THEN mixer_restart(m, 0,
                                 ToneStreamNew(tone_on_write(s.tone1, 65296, addr, value).tone,
                                               TRUE))
                        ELSE m,
            fault |-> tone_on_write(s.tone1, 65296, addr, value).fault]
      [] addr \in 65301 .. 65305 ->
           [sound |-> [s EXCEPT !.tone2 = tone_on_write(@, 65301, addr, value).tone],
            mixer |-> IF tone_on_write(s.tone2, 65301, addr, value).restart
                        THEN mixer_restart(m, 1,
                                 ToneStreamNew(tone_on_write(s.tone2, 65301, addr, value).tone,
                                               FALSE))
                        ELSE m,
            fault |-> tone_on_write(s.tone2, 65301, addr, value).fault]
      [] addr \in 65306 .. 65310 ->
           [sound |-> [s EXCEPT !.wave = wave_on_write(@, addr, value).wave],
            mixer |-> IF wave_on_write(s.wave, addr, value).restart
                        THEN mixer_restart(m, 2,
                                 WaveStreamNew(wave_on_write(s.wave, addr, value).wave))
                        ELSE m,
            fault |-> wave_on_write(s.wave, addr, value).fault]
      [] addr \in 65328 .. 65343 ->
           [sound |-> [s EXCEPT !.wave = wave_on_write(@, addr, value).wave], mixer |-> m,
            fault |-> wave_on_write(s.wave, addr, value).fault]
      [] addr \in 65312 .. 65315 ->
           [sound |-> [s EXCEPT !.noise = noise_on_write(@, addr, value).tone],
            mixer |-> IF noise_on_write(s.noise, addr, value).restart
                        THEN mixer_restart(m, 3,
                                 NoiseStreamNew(noise_on_write(s.noise, addr, value).tone))
                        ELSE m,
            fault |-> noise_on_write(s.noise, addr, value).fault]
      [] addr \in 65316 .. 65318 ->
           [sound |-> s, mixer |-> mixer_on_write(m, addr, value).mixer,
            fault |-> mixer_on_write(m, addr, value).fault]
      [] OTHER -> [sound |-> s, mixer |-> m, fault |-> "none"]

\* Sound::on_read, the handler Mmu::get8 calls for 0xff10..0xff3f: the
\* value, or the panic of unreachable!()
sound_on_read(s, m, addr) ==
    CASE addr \in 65296 .. 65300 -> IF addr = 65296 + 3 THEN Value(255) ELSE Panic
      [] addr \in 65301 .. 65305 -> IF addr = 65301 + 3 THEN Value(255) ELSE Panic
      [] addr \in 65306 .. 65310 -> IF addr = 65309 THEN Value(255) ELSE Panic
      [] addr \in 65312 .. 65315 -> Panic
      [] addr \in 65316 .. 65318 -> mixer_on_read(m, addr)
      [] OTHER -> Panic


(***************************************************************************)
(* Rendering of a line (gpu.rs): background and window of the DMG, and the *)
(* objects on top.  A line is the sequence of its 160 pixels, pixel x at   *)
(* index x + 1.                                                            *)
(***************************************************************************)
VRAM_WIDTH == 160
WINDOW_TILE_MAP == 6
WINDOW_ENABLE == 5
OBJ_SIZE == 2
OBJ_ENABLE == 1
BG_AND_WINDOW_TILES == 4
BG_TILE_MAP == 3

\* LcdControl::get_bgmap
get_bgmap(c) == IF Bit(c, BG_TILE_MAP) = 1 THEN 39936 ELSE 38912

\* LcdControl::get_bg_and_window_tile_area
get_bg_and_window_tile_area(c) == IF Bit(c, BG_AND_WINDOW_TILES) = 1 THEN 32768 ELSE 34816

\* LcdControl::get_winmap
get_winmap(c) == IF Bit(c, WINDOW_TILE_MAP) = 1 THEN 39936 ELSE 38912

\* read_vram_bank, for an address of the bank (0x8000..0x9fff)
read_vram_bank(addr, bank) == ram_get8(bank, addr - 32768)

\* write_vram_bank, for an address of the bank
write_vram_bank(addr, value, bank) ==
    [k \in DOMAIN bank \cup {addr - 32768} |-> IF k = addr - 32768 THEN value ELSE bank[k]]

\* The index addr - 0x8000 of read_vram_bank and write_vram_bank is inside
\* the bank; outside it the subtraction or the indexing panics.
in_vram_bank(addr) == addr \in 32768 .. 40959

\* Gpu::read_vram through Dmg::read_vram (bank 0) or
\* GpuCgbExtension::read_vram (bank 0 or the extension's bank, by
\* vram_select)
read_vram(g, addr) ==
    IF ~in_vram_bank(addr) THEN Panic
    ELSE IF g.cgb_ext.kind = "cgb" /\ g.cgb_ext.vram_select # 0
      THEN Value(read_vram_bank(addr, g.cgb_ext.vram))
    ELSE Value(read_vram_bank(addr, g.vram))

\* Gpu::write_vram through Dmg::write_vram or GpuCgbExtension::write_vram:
\* the PPU afterwards and whether the write panicked
write_vram(g, addr, v) ==
    IF ~in_vram_bank(addr) THEN [gpu |-> g, fault |-> "panic"]
    ELSE IF g.cgb_ext.kind = "cgb" /\ g.cgb_ext.vram_select # 0
      THEN [gpu |-> [g EXCEPT !.cgb_ext.vram = write_vram_bank(addr, v, @)],
            fault |-> "none"]
    ELSE [gpu |-> [g EXCEPT !.vram = write_vram_bank(addr, v, @)], fault |-> "none"]

\* get_tile_base: num as i8 is num - 256 from 128 on
get_tile_base(tiles, mapbase, x, y, bank) ==
    IF tiles = 32768
      THEN tiles + read_vram_bank(mapbase + x + y * 32, bank) * 16
    ELSE IF read_vram_bank(mapbase + x + y * 32, bank) >= 128
      THEN tiles + 2048 + (read_vram_bank(mapbase + x + y * 32, bank) - 256) * 16
    ELSE tiles + 2048 + read_vram_bank(mapbase + x + y * 32, bank) * 16

\* get_tile_line: the two bit planes of a tile's row
get_tile_line(tilebase, y_offset, bank) ==
    <<ram_get8(bank, tilebase + y_offset * 2 - 32768),
      ram_get8(bank, tilebase + y_offset * 2 - 32768 + 1)>>

\* The colour index the loop of get_scanline_after_offset gives pixel i.
\* The loop runs from pixel 159 down; before it the first tile line is
\* shifted right by offset = (8 - scx % 8) % 8, after every pixel the line is
\* shifted by one more, and when offset reaches 8 the line of the tile of
\* the pixel at hand is fetched.  shifts is the number of shifts made when
\* pixel i is reached, fetched_at the pixel whose tile is then in use.
scan_pixel(i, scx, y, bank, tiles, mapbase) ==
    LET shifts == ((8 - (scx % 8)) % 8) + (VRAM_WIDTH - 1 - i)
        fetched_at == IF shifts < 8 THEN VRAM_WIDTH - 1 ELSE i + (shifts % 8)
        line == get_tile_line(get_tile_base(tiles, mapbase,
                                            ((fetched_at + scx) % 256) \div 8,
                                            y \div 8, bank),
                              y % 8, bank)
    IN  Bit(line[1], shifts % 8) + 2 * Bit(line[2], shifts % 8)

\* Dmg::get_scanline_after_offset: the colour indices of the line (bgbuf)
get_scanline_after_offset(scx, y, bank, tiles, mapbase) ==
    [x \in 1 .. VRAM_WIDTH |-> scan_pixel(x - 1, scx, y, bank, tiles, mapbase)]

\* The colours of a line of colour indices (buf)
palette_line(g, colis) == [x \in 1 .. VRAM_WIDTH |-> g.bg_palette[colis[x]]]

\* GpuCgbExtension::get_scanline_after_offset: todo!(), a panic whatever
\* the arguments
cgb_get_scanline_after_offset == Panic

\* Gpu::when_bg_and_window_enable: buf afterwards; with the CGB extension
\* the panic of its get_scanline_after_offset
when_bg_and_window_enable(g) ==
    IF g.cgb_ext.kind = "cgb" THEN cgb_get_scanline_after_offset
    ELSE Value(palette_line(g, get_scanline_after_offset(
                                   g.scx, (g.ly + g.scy) % 256, g.vram,
                                   get_bg_and_window_tile_area(g.lcd_control),
                                   get_bgmap(g.lcd_control))))

\* Gpu::when_window_enable: buf afterwards; the extension is called only
\* when the line is at or below WY
when_window_enable(g, buf) ==
    IF g.ly < g.wy THEN Value(buf)
    ELSE IF g.cgb_ext.kind = "cgb" THEN cgb_get_scanline_after_offset
    ELSE Value(palette_line(g, get_scanline_after_offset(
                                   IF g.wx >= 7 THEN g.wx - 7 ELSE 0, g.ly - g.wy, g.vram,
                                   get_bg_and_window_tile_area(g.lcd_control),
                                   get_winmap(g.lcd_control))))

\* The line all of one colour, DmgColor::White (DmgColor::default)
blank_line == [x \in 1 .. VRAM_WIDTH |-> 0]

\* buf as Gpu::draw creates it, [Ext::Color::default(); 160]: DmgColor::White
\* with the DMG extension, Color::Dmg(DmgColor::White) with the CGB
\* extension.  A Color is a tuple: <<c>> for Color::Dmg(c), <<r, g, b>> for
\* Color::Rgb(r, g, b).
default_buf(g) ==
    IF g.cgb_ext.kind = "cgb" THEN [x \in 1 .. VRAM_WIDTH |-> <<0>>] ELSE blank_line

\* bgbuf as when_bg_and_window_enable leaves it: the colour indices of the
\* background's line (the window's pass is given no bgbuf)
bgbuf_line(g) ==
    get_scanline_after_offset(g.scx, (g.ly + g.scy) % 256, g.vram,
                              get_bg_and_window_tile_area(g.lcd_control),
                              get_bgmap(g.lcd_control))

\* LcdControl::get_spsize
get_spsize(c) == IF Bit(c, OBJ_SIZE) = 1 THEN 16 ELSE 8

\* Gpu::write_oam (0xfe00 - 0xfe9f): the PPU afterwards; an address outside
\* the OAM panics on the subtraction or on the index
write_oam(g, addr, v) ==
    IF addr - 65024 \notin 0 .. 159 THEN [gpu |-> g, fault |-> "panic"]
    ELSE [gpu |-> [g EXCEPT !.oam = [k \in DOMAIN g.oam \cup {addr - 65024} |->
                                        IF k = addr - 65024 THEN v ELSE g.oam[k]]],
          fault |-> "none"]

\* Dmg::get_sp_attr and GpuCgbExtension::get_sp_attr: the palette, the bank
\* of the tile and the flags of an object's attribute byte
get_sp_attr(g, attr) ==
    [palette |-> IF g.cgb_ext.kind = "cgb"
                   THEN [c \in 0 .. 3 |-> g.cgb_ext.obj_color_palette.cols[<<attr % 8, c>>]]
                 ELSE IF Bit(attr, 4) = 1 THEN g.cgb_ext.obj_palette1
                 ELSE g.cgb_ext.obj_palette0,
     vram_bank |-> IF g.cgb_ext.kind = "cgb" /\ Bit(attr, 3) = 1 THEN g.cgb_ext.vram
                   ELSE g.vram,
     xflip |-> Bit(attr, 5) = 1,
     yflip |-> Bit(attr, 6) = 1,
     priority |-> Bit(attr, 7) = 1]

\* One turn of the loop of Gpu::when_obj_enable: buf after the object whose
\* four bytes (y, x, tile, attribute) are the chunk i of the OAM.  The
\* object is skipped when it does not hit the line or is off-screen.  Its
\* pixels are those of first .. last - 1; the tile's line is shifted right by
\* offset and then by one for every pixel, the pixels taken from first
\* upwards when the object is flipped and from last - 1 downwards when it is
\* not: pixel x reads the bit at(x) of the two planes.  A pixel of colour
\* index 0, or one of an object of low priority over a background index that
\* is not 0, keeps what buf holds.
obj_line(g, bgbuf, buf, i) ==
    LET ypos == ram_get8(g.oam, 4 * i)
        xpos == ram_get8(g.oam, 4 * i + 1)
        tile == ram_get8(g.oam, 4 * i + 2)
        attr == get_sp_attr(g, ram_get8(g.oam, 4 * i + 3))
        spsize == get_spsize(g.lcd_control)
        hit == g.ly + 16 - ypos
        tyoff == IF attr.yflip THEN spsize - 1 - hit ELSE hit
        ti == IF spsize = 16
                THEN (IF tyoff >= 8 THEN tile - (tile % 2) + 1 ELSE tile - (tile % 2))
                ELSE tile
        line == get_tile_line(32768 + ti * 16, tyoff % 8, attr.vram_bank)
        first == IF xpos > 8 THEN xpos - 8 ELSE 0
        last == IF xpos < VRAM_WIDTH THEN xpos ELSE VRAM_WIDTH
        offset == IF attr.xflip THEN (IF xpos < 8 THEN 8 - xpos ELSE 0)
                  ELSE (IF xpos > VRAM_WIDTH THEN xpos - VRAM_WIDTH ELSE 0)
        at(x) == offset + (IF attr.xflip THEN x - first ELSE last - 1 - x)
        coli(x) == Bit(line[1], at(x)) + 2 * Bit(line[2], at(x))
    IN  IF g.ly + 16 < ypos THEN buf
        ELSE IF hit >= spsize THEN buf
        ELSE IF xpos = 0 \/ xpos >= VRAM_WIDTH + 8 THEN buf
        ELSE [x \in 1 .. VRAM_WIDTH |->
                 IF x - 1 < first \/ x - 1 >= last THEN buf[x]
                 ELSE IF coli(x - 1) = 0 THEN buf[x]
                 ELSE IF attr.priority /\ bgbuf[x] # 0 THEN buf[x]
                 ELSE attr.palette[coli(x - 1)]]

\* The turns from chunk i on of the loop of Gpu::when_obj_enable, in the
\* order of the OAM: 160 bytes, 40 chunks
RECURSIVE obj_lines(_, _, _, _)
obj_lines(g, bgbuf, buf, i) ==
    IF i >= 40 THEN buf ELSE obj_lines(g, bgbuf, obj_line(g, bgbuf, buf, i), i + 1)

\* Gpu::when_obj_enable: buf afterwards
when_obj_enable(g, bgbuf, buf) == obj_lines(g, bgbuf, buf, 0)

\* Gpu::draw with the pixels: the line's buffer, None past the last visible
\* line, or the panic of the CGB extension.  The background and the window
\* are drawn when LCDC bit 0 is set, the objects on top when bit 1 is set;
\* bgbuf stays all zero when the background is off.
draw_buf(g) ==
    LET Objs(r, bgbuf) ==
            IF r.fault = "panic" THEN Panic
            ELSE IF Bit(g.lcd_control, OBJ_ENABLE) = 1
              THEN Value(when_obj_enable(g, bgbuf, r.value))
            ELSE r
        Window(r) ==
            IF r.fault = "panic" THEN Panic
            ELSE IF Bit(g.lcd_control, WINDOW_ENABLE) = 1 THEN when_window_enable(g, r.value)
            ELSE r
    IN  IF g.ly >= VRAM_HEIGHT THEN Value(None)
        ELSE IF Bit(g.lcd_control, BG_AND_WINDOW_ENABLE) = 0
          THEN Objs(Value(default_buf(g)), blank_line)
        ELSE Objs(Window(when_bg_and_window_enable(g)), bgbuf_line(g))

(***************************************************************************)
(* The VRAM bank register VBK (0xff4f) of the CGB extension (gpu.rs).  Of  *)
(* GpuCgbExtension the model keeps vram_select; on the DMG extension the   *)
(* register panics.                                                        *)
(***************************************************************************)
\* ColorPalette::new: eight palettes of four colours Color::Rgb(0, 0, 0)
ColorPaletteNew ==
    [cols |-> [k \in (0 .. 7) \X (0 .. 3) |-> <<0, 0, 0>>], index |-> 0,
     auto_inc |-> FALSE]

\* GpuCgbExtension::default
GpuCgbExtensionNew ==
    [kind |-> "cgb", vram_select |-> 0, vram |-> <<>>,
     bg_color_palette |-> ColorPaletteNew, obj_color_palette |-> ColorPaletteNew]

\* Gpu::select_vram_bank, GpuCgbExtension::select_vram_bank and
\* Dmg::select_vram_bank
select_vram_bank(g, v) ==
    IF g.cgb_ext.kind = "cgb"
      THEN [gpu |-> [g EXCEPT !.cgb_ext.vram_select = v % 2], fault |-> "none"]
      ELSE [gpu |-> g, fault |-> "panic"]

\* Gpu::read_vram_bank_select, GpuCgbExtension::read_vram_bank_select
\* (vram_select & 0xfe) and Dmg::read_vram_bank_select
read_vram_bank_select(g) ==
    IF g.cgb_ext.kind = "cgb" THEN Value(BitAnd(g.cgb_ext.vram_select, 254)) ELSE Panic

(***************************************************************************)
(* The PPU's registers (gpu.rs).  A write gives the PPU afterwards and      *)
(* whether it panicked, a read the value or the panic.                      *)
(***************************************************************************)
GpuWrote(g) == [gpu |-> g, fault |-> "none"]

GpuPanic(g) == [gpu |-> g, fault |-> "panic"]

\* to_palette: the four colours of a palette byte
to_palette(p) == [c \in 0 .. 3 |-> (p \div Pow2(2 * c)) % 4]

\* from_palette
from_palette(p) == p[0] + 4 * p[1] + 16 * p[2] + 64 * p[3]

\* Gpu::write_bg_palette (0xff47)
write_bg_palette(g, v) ==
    IF g.cgb_ext.kind = "dmg" THEN GpuWrote([g EXCEPT !.bg_palette = to_palette(v)])
    ELSE GpuPanic(g)

\* Gpu::read_bg_palette
read_bg_palette(g) ==
    IF g.cgb_ext.kind = "dmg" THEN Value(from_palette(g.bg_palette)) ELSE Panic

\* Gpu::write_obj_palette0 (0xff48)
write_obj_palette0(g, v) ==
    IF g.cgb_ext.kind = "dmg"
      THEN GpuWrote([g EXCEPT !.cgb_ext.obj_palette0 = to_palette(v)])
    ELSE GpuPanic(g)

\* Gpu::read_obj_palette0
read_obj_palette0(g) ==
    IF g.cgb_ext.kind = "dmg" THEN Value(from_palette(g.cgb_ext.obj_palette0)) ELSE Panic

\* Gpu::write_obj_palette1 (0xff49)
write_obj_palette1(g, v) ==
    IF g.cgb_ext.kind = "dmg"
      THEN GpuWrote([g EXCEPT !.cgb_ext.obj_palette1 = to_palette(v)])
    ELSE GpuPanic(g)

\* Gpu::read_obj_palette1
read_obj_palette1(g) ==
    IF g.cgb_ext.kind = "dmg" THEN Value(from_palette(g.cgb_ext.obj_palette1)) ELSE Panic

\* Color::set_low on Color::Rgb(r, g, b)
set_low(c, low) == <<low % 32, (c[2] - (c[2] % 8)) + (low \div 32), c[3]>>

\* Color::set_high: `g & !0x18 | (high & 0x3) << 3` and `(high >> 2) & 0x1f`
set_high(c, high) ==
    <<c[1], (c[2] - 8 * ((c[2] \div 8) % 4)) + 8 * (high % 4), (high \div 4) % 32>>

\* Color::get_low
get_low(c) == (c[1] % 32) + 32 * (c[2] % 8)

\* Color::get_high
get_high(c) == ((c[2] \div 8) % 4) + 4 * (c[3] % 32)

\* ColorPalette::select
palette_select(cp, value) == [cp EXCEPT !.auto_inc = value >= 128, !.index = value % 64]

\* ColorPalette::read
palette_read(cp) ==
    LET idx == cp.index \div 8
        off == cp.index % 8
    IN  IF off % 2 = 0 THEN get_low(cp.cols[<<idx, off \div 2>>])
        ELSE get_high(cp.cols[<<idx, off \div 2>>])

\* ColorPalette::write
palette_write(cp, value) ==
    LET idx == cp.index \div 8
        off == cp.index % 8
    IN  [cp EXCEPT !.cols[<<idx, off \div 2>>] =
                       IF off % 2 = 0 THEN set_low(@, value) ELSE set_high(@, value),
                   !.index = IF cp.auto_inc THEN (cp.index + 1) % 64 ELSE @]

\* The handler of the PPU for a bus write.  mmu.rs hands the VRAM and the
\* registers 0xff40..0xff45, 0xff47..0xff4b, 0xff4f, 0xff51..0xff55 and
\* 0xff68..0xff6b to the PPU; gpu.rs has one method for each register, at
\* the address its comment names.  Any other address is not the PPU's.
gpu_on_write(g, addr, v) ==
    CASE in_vram_bank(addr) -> write_vram(g, addr, v)
      [] addr = ADDR_LCDC -> GpuWrote(write_ctrl(g, v))
      [] addr = ADDR_STAT -> GpuWrote(write_status(g, v))
      [] addr = 65346 -> GpuWrote([g EXCEPT !.scy = v])
      [] addr = 65347 -> GpuWrote([g EXCEPT !.scx = v])
      [] addr = ADDR_LY -> GpuWrote(clear_ly(g))
      [] addr = ADDR_LYC -> GpuWrote(write_lyc(g, v))
      [] addr = 65351 -> write_bg_palette(g, v)
      [] addr = 65352 -> write_obj_palette0(g, v)
      [] addr = 65353 -> write_obj_palette1(g, v)
      [] addr = 65354 -> GpuWrote([g EXCEPT !.wy = v])
      [] addr = 65355 -> GpuWrote([g EXCEPT !.wx = v])
      [] addr = 65359 -> select_vram_bank(g, v)
      [] addr = 65361 -> GpuWrote([g EXCEPT !.hdma.src_high = v])
      [] addr = 65362 -> GpuWrote([g EXCEPT !.hdma.src_low = v])
      [] addr = 65363 -> GpuWrote([g EXCEPT !.hdma.dst_high = v])
      [] addr = 65364 -> GpuWrote([g EXCEPT !.hdma.dst_low = v])
      [] addr = 65365 -> GpuWrote([g EXCEPT !.hdma = hdma_start(@, v)])
      [] addr \in {65384, 65385} ->
           IF g.cgb_ext.kind # "cgb" THEN GpuPanic(g)
           ELSE GpuWrote([g EXCEPT !.cgb_ext.bg_color_palette =
                                       IF addr = 65384 THEN palette_select(@, v)
                                       ELSE palette_write(@, v)])
      [] addr \in {65386, 65387} ->
           IF g.cgb_ext.kind # "cgb" THEN GpuPanic(g)
           ELSE GpuWrote([g EXCEPT !.cgb_ext.obj_color_palette =
                                       IF addr = 65386 THEN palette_select(@, v)
                                       ELSE palette_write(@, v)])
      [] OTHER -> GpuPanic(g)

\* Mode as a u8 (From<Mode> for u8)
mode_bits(mode) ==
    CASE mode = "HBlank" -> 0 [] mode = "VBlank" -> 1 [] mode = "OamScan" -> 2
      [] mode = "Drawing" -> 3 [] OTHER -> 0

\* LcdStatus::bits
status_bits(st) ==
    (IF HBLANK_INT \in st THEN 8 ELSE 0) + (IF VBLANK_INT \in st THEN 16 ELSE 0)
    + (IF OAM_INT \in st THEN 32 ELSE 0) + (IF LYC_INT \in st THEN 64 ELSE 0)

\* Hdma::status (a read of HDMA5).  `len | 0x80`: len is 0..0x7f after a
\* start and 0xff after a general transfer.
hdma_status(h) == IF h.on /\ h.len < 128 THEN h.len + 128 ELSE h.len

\* The registers gpu.rs has no read method for (BCPS 0xff68, OCPS 0xff6a).
GpuUnread == {65384, 65386}

\* The handler of the PPU for a bus read, with the same addresses.
gpu_on_read(g, addr) ==
    CASE in_vram_bank(addr) -> read_vram(g, addr)
      [] addr = ADDR_LCDC -> Value(g.lcd_control)
      [] addr = ADDR_STAT -> Value(status_bits(g.lcd_status) + mode_bits(g.mode))
      [] addr = 65346 -> Value(g.scy)
      [] addr = 65347 -> Value(g.scx)
      [] addr = ADDR_LY -> Value(g.ly)
      [] addr = ADDR_LYC -> Value(g.lyc)
      [] addr = 65351 -> read_bg_palette(g)
      [] addr = 65352 -> read_obj_palette0(g)
      [] addr = 65353 -> read_obj_palette1(g)
      [] addr = 65354 -> Value(g.wy)
      [] addr = 65355 -> Value(g.wx)
      [] addr = 65359 -> read_vram_bank_select(g)
      [] addr = 65361 -> Value(g.hdma.src_high)
      [] addr = 65362 -> Value(g.hdma.src_low)
      [] addr = 65363 -> Value(g.hdma.dst_high)
      [] addr = 65364 -> Value(g.hdma.dst_low)
      [] addr = 65365 -> Value(hdma_status(g.hdma))
      [] addr = 65385 ->
           IF g.cgb_ext.kind # "cgb" THEN Panic
           ELSE Value(palette_read(g.cgb_ext.bg_color_palette))
      [] addr = 65387 ->
           IF g.cgb_ext.kind # "cgb" THEN Panic
           ELSE Value(palette_read(g.cgb_ext.obj_color_palette))
      [] OTHER -> Panic

(***************************************************************************)
(* The CGB registers and work RAM of cgb.rs, the handler the MMU names for *)
(* 0xc000..0xdfff, 0xff4d, 0xff56 and 0xff70.  wram_bank holds the bytes   *)
(* written so far, keyed by <<bank, offset>>; every other byte is 0.       *)
(***************************************************************************)
\* An element of a bank: the array is zero after construction.
bank_get(banks, bank, off) ==
    IF <<bank, off>> \in DOMAIN banks THEN banks[<<bank, off>>] ELSE 0

bank_set(banks, bank, off, v) ==
    [k \in DOMAIN banks \cup {<<bank, off>>} |->
        IF k = <<bank, off>> THEN v ELSE banks[k]]

\* Cgb::default
CgbNew == [double_speed |-> FALSE, speed_switch |-> FALSE, wram_select |-> 1,
           wram_bank |-> <<>>]

\* wram_bank has eight banks: an index past 7 panics.
WRAM_BANKS == 8

\* Cgb::on_read
cgb_on_read(c, addr) ==
    IF addr \in 49152 .. 53247 THEN Value(bank_get(c.wram_bank, 0, addr - 49152))
    ELSE IF addr \in 53248 .. 57343
      THEN IF c.wram_select >= WRAM_BANKS THEN Panic
           ELSE Value(bank_get(c.wram_bank, c.wram_select, addr - 53248))
    ELSE IF addr = 65357
      THEN Value((IF c.double_speed THEN 128 ELSE 0) + (IF c.speed_switch THEN 1 ELSE 0))
    ELSE IF addr = 65392 THEN Value(c.wram_select)
    ELSE Panic

\* Cgb::on_write: the device afterwards and whether it panicked.  0xff70
\* keeps (value & 0xf).max(1), which can be 8..15.
cgb_on_write(c, addr, value) ==
    IF addr \in 49152 .. 53247
      THEN [cgb |-> [c EXCEPT !.wram_bank = bank_set(@, 0, addr - 49152, value)],
            fault |-> "none"]
    ELSE IF addr \in 53248 .. 57343
      THEN IF c.wram_select >= WRAM_BANKS THEN [cgb |-> c, fault |-> "panic"]
           ELSE [cgb |-> [c EXCEPT !.wram_bank =
                                      bank_set(@, c.wram_select, addr - 53248, value)],
                 fault |-> "none"]
    ELSE IF addr = 65357
      THEN [cgb |-> [c EXCEPT !.speed_switch = (value % 2 = 1)], fault |-> "none"]
    ELSE IF addr = 65366 THEN [cgb |-> c, fault |-> "none"]
    ELSE IF addr = 65392
      THEN [cgb |-> [c EXCEPT !.wram_select = IF value % 16 = 0 THEN 1 ELSE value % 16],
            fault |-> "none"]
    ELSE [cgb |-> c, fault |-> "panic"]

\* Cgb::try_switch_speed: a speed switch that was requested through 0xff4d
\* is made and the request cleared
try_switch_speed(c) ==
    IF c.speed_switch THEN [c EXCEPT !.double_speed = ~@, !.speed_switch = FALSE] ELSE c

(***************************************************************************)
(* The machine: the CPU state and the devices its bus reaches.  req is the *)
(* set of interrupts the peripherals requested since it was last emptied   *)
(* (an observation).                                                       *)
(***************************************************************************)
\* CpuState::new
CpuNew == [a |-> 0, f |-> 0, b |-> 0, c |-> 0, d |-> 0, e |-> 0, h |-> 0, l |-> 0,
           pc |-> 0, sp |-> 0, ime |-> TRUE,
           ei_delay |-> 0, di_delay |-> 0, halt |-> FALSE, halt_bug |-> FALSE,
           cycles |-> 0, line |-> None]

\* Of two outcomes the one that ends the program first: a panic, then an
\* arithmetic overflow (which panics in a debug build; the state kept is
\* the one a release build goes on with).
Worse(a, b) ==
    IF a = "panic" \/ b = "panic" THEN "panic"
    ELSE IF a = "overflow" \/ b = "overflow" THEN "overflow"
    ELSE "none"

\* build is the build of the program, which decides what an overflowing
\* addition does: a debug build panics, a release build wraps.  It is the
\* build the specification draws (frm.build); a specification that draws
\* none never adds past the end of a u16 address.
\* bus is the list of the bus accesses the CPU has made in the current call
\* (the method that made the access, its width in bits and the cycles of
\* the step made since the access before it, 0 for none); stepped is the
\* cycles of the last step when no bus access has followed it yet.  After a
\* panic (fault) the program has ended and the other fields mean nothing.
Machine == [cpu |-> cpu, ic |-> ic, tm |-> tm, gpu |-> gpu, mem |-> mem, dma |-> dma,
            mbc |-> mbc, serial |-> serial, joypad |-> joypad, mixer |-> mixer,
            sound |-> sound, cgb |-> cgb, fault |-> fault, req |-> {}, bus |-> <<>>,
            stepped |-> 0,
            build |-> IF "build" \in DOMAIN frm THEN frm.build ELSE "release"]

\* A bus access of the CPU (self.sys.get8, get16, set8 or set16) made by the
\* method via.
touch(m, via, width) ==
    [m EXCEPT !.bus = Append(@, [via |-> via, width |-> width, stepped |-> m.stepped]),
              !.stepped = 0]

\* The host during the calls of the CPU: it has no byte to receive and no
\* key is pressed.
HostRx == None

HostKeys == {}

\* The echo 0xe000..0xfdff of the RAM array of the MMU
in_echo(addr) == addr \in 57344 .. 65023

\* The RAM array of the MMU at addr, as Mmu::get8 reads it
ram_read(r, addr) == IF in_echo(addr) THEN ram_get8(r, addr - 8192) ELSE ram_get8(r, addr)

\* The RAM array of the MMU after Mmu::set8 stores v
ram_write(r, addr, v) == IF in_echo(addr) THEN ((addr - 8192) :> v) @@ r ELSE (addr :> v) @@ r

\* The machine after a handler took a write, with the handler's outcome: a
\* handler that returns MemWrite::Block keeps the byte from the RAM array;
\* after one that returns MemWrite::PassThrough, or returns nothing,
\* Mmu::set8 goes on to store the byte.
Handled(m, f, write) == [m |-> [m EXCEPT !.fault = Worse(@, f)], write |-> write]

\* Mmu::on_write: the handler that owns the address
mmu_on_write(m, addr, v) ==
    CASE addr \in 49152 .. 57343 \/ addr \in {65357, 65366, 65392} ->
           LET Took(r) == Handled([m EXCEPT !.cgb = r.cgb], r.fault, "PassThrough")
           IN  Took(cgb_on_write(m.cgb, addr, v))
      [] addr \in 0 .. 32767 \/ addr = 65360 \/ addr \in 40960 .. 49151 ->
           LET Took(r) == Handled([m EXCEPT !.mbc = r.mbc], r.fault, "PassThrough")
           IN  Took(mbc_on_write(m.mbc, addr, v))
      [] addr \in 65296 .. 65343 ->
           LET Took(r) == Handled([m EXCEPT !.sound = r.sound, !.mixer = r.mixer],
                                  r.fault, "PassThrough")
           IN  Took(sound_on_write(m.sound, m.mixer, addr, v))
      [] addr = ADDR_DMA ->
           LET Took(r) == Handled([m EXCEPT !.dma = r.dma], r.fault, "Block")
           IN  Took(dma_on_write(m.dma, addr, v))
      [] \/ addr \in 32768 .. 40959 \/ addr \in 65344 .. 65349 \/ addr \in 65351 .. 65355
         \/ addr = 65359 \/ addr \in 65361 .. 65365 \/ addr \in 65384 .. 65387 ->
           LET Took(r) ==
                   Handled([m EXCEPT !.gpu = r.gpu,
                                     !.ic.request = IF addr = ADDR_LCDC THEN @ \ {VBLANK} ELSE @],
                           r.fault, "PassThrough")
           IN  Took(gpu_on_write(m.gpu, addr, v))
      [] addr \in {ADDR_IF, ADDR_IE} ->
           Handled([m EXCEPT !.ic = ic_on_write(m.ic, addr, v)], "none", "Block")
      [] addr = ADDR_JOYP ->
           Handled([m EXCEPT !.joypad = joypad_on_write(m.joypad, addr, v)], "none",
                   "PassThrough")
      [] addr \in ADDR_DIV .. ADDR_TAC ->
           LET Took(r) == Handled([m EXCEPT !.tm = r.tm], r.fault, "PassThrough")
           IN  Took(timer_on_write(m.tm, addr, v))
      [] addr \in ADDR_SB .. ADDR_SC ->
           LET Took(r) == Handled([m EXCEPT !.serial = r.serial], r.fault, "Block")
           IN  Took(serial_on_write(m.serial, addr, v, HostRx))
      [] OTHER -> Handled(m, "none", "None")

\* Mmu::set8: the handler, then the RAM array unless the handler blocked
\* the write.
sys_set8(m, addr, v) ==
    LET Store(r) == IF r.m.fault = "panic" \/ r.write = "Block" THEN r.m
                    ELSE [r.m EXCEPT !.mem = ram_write(@, addr, v)]
    IN  IF m.fault = "panic" THEN m ELSE Store(mmu_on_write(m, addr, v))

\* `addr + 1` on a u16 in Sys::get16 and Sys::set16: an overflow, which
\* panics in a debug build and wraps in a release build
add_overflows(addr) == addr + 1 > 65535

\* Sys::set16: low byte first, then the high byte at addr + 1.  The sum is a
\* u16 addition, made after the low byte is written: for addr = 0xffff it
\* panics in a debug build and wraps to 0x0000 in a release build.
sys_set16(m, addr, v) ==
    LET High(lo) == IF lo.fault = "panic" THEN lo
                    ELSE IF add_overflows(addr) /\ m.build = "debug"
                      THEN [lo EXCEPT !.fault = "panic"]
                    ELSE sys_set8(lo, W16(addr + 1), Hi(v))
    IN  High(sys_set8(m, addr, Lo(v)))

\* What a handler's read gives: the value that replaces the RAM byte
\* (MemRead::Replace, MemRead(u8)), or the panic
Replace(r) == [value |-> r.value, fault |-> r.fault, read |-> "Replace"]

\* MemRead::PassThrough, and no handler: the byte of the RAM array is read
PassThrough == [value |-> None, fault |-> "none", read |-> "PassThrough"]

\* Mmu::on_read: the handler that owns the address
mmu_on_read(m, addr) ==
    CASE addr \in 49152 .. 57343 \/ addr \in {65357, 65366, 65392} ->
           Replace(cgb_on_read(m.cgb, addr))
      [] addr \in 0 .. 32767 \/ addr = 65360 \/ addr \in 40960 .. 49151 ->
           Replace(mbc_on_read(m.mbc, addr))
      [] addr \in 65296 .. 65343 -> Replace(sound_on_read(m.sound, m.mixer, addr))
      [] addr = ADDR_DMA -> Replace(Value(dma_on_read(m.dma, addr)))
      [] \/ addr \in 32768 .. 40959 \/ addr \in 65344 .. 65349 \/ addr \in 65351 .. 65355
         \/ addr = 65359 \/ addr \in 65361 .. 65365 \/ addr \in 65384 .. 65387 ->
           IF addr \in GpuUnread THEN PassThrough ELSE Replace(gpu_on_read(m.gpu, addr))
      [] addr = ADDR_IE -> Replace(Value(Ints_get(m.ic.enable)))
      [] addr = ADDR_IF -> Replace(Value(Ints_get(m.ic.request)))
      [] addr = ADDR_JOYP -> Replace(Value(joypad_check(m.joypad, HostKeys)))
      [] addr \in ADDR_DIV .. ADDR_TAC -> Replace(timer_on_read(m.tm, addr))
      [] addr \in ADDR_SB .. ADDR_SC -> Replace(serial_on_read(m.serial, addr))
      [] OTHER -> PassThrough

\* Mmu::get8: the value a handler replaces, else the byte of the RAM array;
\* or the panic of the handler
sys_get8(m, addr) ==
    LET Load(r) == IF r.fault = "panic" THEN Panic
                   ELSE IF r.read = "Replace" THEN Value(r.value)
                   ELSE Value(ram_read(m.mem, addr))
    IN  Load(mmu_on_read(m, addr))

\* Sys::get16: the low byte, then the high byte at addr + 1, a sum that
\* panics in a debug build for addr = 0xffff
sys_get16(m, addr) ==
    LET Word(lo, hi) == IF lo.fault = "panic" \/ hi.fault = "panic" THEN Panic
                        ELSE Value(lo.value + 256 * hi.value)
    IN  IF add_overflows(addr) /\ m.build = "debug" THEN Panic
        ELSE Word(sys_get8(m, addr), sys_get8(m, W16(addr + 1)))

\* The assertion at the head of the transfer
dma_assert(d) == d.src <= 128 \/ d.src >= 159

\* One turn of the loop of the transfer: get8(src + i), then
\* set8(0xfe00 + i).  A panic of a handler ends the program.
dma_copy_byte(m, src, i) ==
    LET Put(r) == IF r.fault = "panic" THEN [m EXCEPT !.fault = "panic"]
                  ELSE sys_set8(m, ADDR_OAM + i, r.value)
    IN  IF m.fault = "panic" THEN m ELSE Put(sys_get8(m, src + i))

\* The turns lo .. hi - 1 of the loop, in order (the first half, then the
\* second).
RECURSIVE dma_copy(_, _, _, _)
dma_copy(m, src, lo, hi) ==
    IF hi <= lo THEN m
    ELSE IF hi = lo + 1 THEN dma_copy_byte(m, src, lo)
    ELSE LET mid == (lo + hi) \div 2
             Rest(m1) == IF m1.fault = "panic" THEN m1 ELSE dma_copy(m1, src, mid, hi)
         IN  Rest(dma_copy(m, src, lo, mid))

\* Dma::step / Mmu::dma_step: a transfer that was started is made at once;
\* the assertion on the source page panics before anything is copied.
dma_step(m) ==
    IF m.fault = "panic" \/ ~m.dma.on THEN m
    ELSE IF ~dma_assert(m.dma) THEN [m EXCEPT !.fault = "panic"]
    ELSE [dma_copy(m, m.dma.src * 256, 0, DMA_LENGTH) EXCEPT !.dma.on = FALSE]

\* One turn of the loop of Mmu::gpu_hdma_run: get8(src + i), then
\* Gpu::write_vram(dst + i).  The sums are u16 additions.
hdma_copy_byte(m, req, i) ==
    LET of == IF req.src + i > 65535 \/ req.dst + i > 65535 THEN "overflow" ELSE "none"
        Written(w) == [m EXCEPT !.gpu = w.gpu, !.fault = Worse(Worse(@, of), w.fault)]
        Put(r) == IF r.fault = "panic" THEN [m EXCEPT !.fault = "panic"]
                  ELSE Written(write_vram(m.gpu, W16(req.dst + i), r.value))
    IN  IF m.fault = "panic" THEN m ELSE Put(sys_get8(m, W16(req.src + i)))

\* The turns lo .. hi - 1 of the loop, in order.
RECURSIVE hdma_copy(_, _, _, _)
hdma_copy(m, req, lo, hi) ==
    IF hi <= lo THEN m
    ELSE IF hi = lo + 1 THEN hdma_copy_byte(m, req, lo)
    ELSE LET mid == (lo + hi) \div 2
             Rest(m1) == IF m1.fault = "panic" THEN m1 ELSE hdma_copy(m1, req, mid, hi)
         IN  Rest(hdma_copy(m, req, lo, mid))

\* Mmu::gpu_hdma_run: the loop that copies the request Hdma::run returned
gpu_hdma_run(m, req) == hdma_copy(m, req, 0, req.len)

\* Mmu::gpu_step: the PPU afterwards, the interrupts requested and the
\* line drawn.  The arm that enters HBLANK runs the HDMA while the PPU is
\* still in Mode::VRAM: gpu_hdma_run reads the bytes of the request through
\* Mmu::get8 and writes them with Gpu::write_vram; clocks and mode are
\* stored at the end of the step.  A u16 overflow in Hdma::run or in the
\* loop is the fault "overflow".
mmu_gpu_step(m, time) ==
    LET g == m.gpu
        Stepped(r, d, c) ==
            [gpu |-> [c.gpu EXCEPT !.clocks = r.clocks, !.mode = r.mode, !.ly = r.ly],
             irq |-> r.irq \cup (IF LYC_INT \in g.lcd_status /\ g.lyc = r.ly
                                   THEN {LCD} ELSE {}),
             line |-> r.line,
             enter_hblank |-> (g.mode = "Drawing" /\ r.mode = "HBlank"),
             dma |-> d.req,
             overflow |-> d.overflow,
             fault |-> Worse(c.fault, IF d.overflow THEN "overflow" ELSE "none")]
        Ran(r, d) == Stepped(r, d, gpu_hdma_run([m EXCEPT !.gpu.hdma = d.hdma], d.req))
        Matched(r) == Ran(r, mmu_gpu_hdma(g, r))
    IN  Matched(mmu_gpu_match(g, g.clocks + time))

\* The interrupt requests of the PPU step g, of the timer step t, of the
\* serial step s and of the joypad poll j reach the controller; StepData
\* carries the line drawn.
sys_step_end(m, g, t, s, j) ==
    [m |-> [m EXCEPT !.tm = t.tm, !.serial = s.serial, !.joypad = j.joypad,
                     !.ic.request = @ \cup g.irq \cup t.irq \cup s.irq \cup j.irq,
                     !.req = @ \cup g.irq \cup t.irq \cup s.irq \cup j.irq,
                     !.fault = Worse(Worse(Worse(@, g.fault),
                                           IF g.overflow THEN "overflow" ELSE "none"),
                                     IF t.overflow THEN "overflow" ELSE "none")],
     line_to_draw |-> g.line]

\* The PPU's part of Sys::step: Gpu::step, and the transfer it asks for is
\* made at once.
sys_gpu_step(m, g) == hdma_copy([m EXCEPT !.gpu = g.gpu], g.dma, 0, g.dma.len)

\* Sys::step: the peripherals advance by the given cycles: OAM DMA, the
\* PPU, the timer, the serial port and the joypad (the sound unit has no
\* state that a step advances here).  Returns the machine and
\* StepData.line_to_draw.
sys_step(m, cycles) ==
    LET Others(m1, g) == sys_step_end(m1, g, timer_step(m1.tm, cycles),
                                      serial_step(m1.serial, cycles, HostRx),
                                      joypad_poll(m1.joypad, HostKeys))
        Ppu(m0, g) == IF g.fault = "panic"
                        THEN [m |-> [m0 EXCEPT !.fault = "panic"], line_to_draw |-> None]
                        ELSE Others(sys_gpu_step(m0, g), g)
        Dma(m0) == Ppu(m0, gpu_step(m0.gpu, cycles))
    IN  Dma(dma_step(m))

(***************************************************************************)
(* CPU (cpu.rs).                                                           *)
(***************************************************************************)
\* The end of Cpu::step: the cycles are counted and a line drawn by the
\* step is kept in steps_data, where no line may be kept already
\* (assert!(line_to_draw.is_none())).
step_end(r, cycles) ==
    [r.m EXCEPT !.cpu.cycles = @ + cycles,
                !.cpu.line = IF r.line_to_draw # None /\ @ = None THEN r.line_to_draw ELSE @,
                !.fault = IF r.line_to_draw # None /\ r.m.cpu.line # None
                            THEN "panic" ELSE @]

\* Cpu::step.  Nothing is stepped once the program has panicked.
step(m, cycles) ==
    IF m.fault = "panic" THEN m
    ELSE [step_end(sys_step(m, cycles), cycles) EXCEPT !.stepped = cycles]

\* Cpu::halt
halt(m) ==
    IF ~m.cpu.ime /\ peek(m.ic).vec # None
      THEN [m EXCEPT !.cpu.halt_bug = TRUE]
      ELSE [m EXCEPT !.cpu.halt = TRUE]

\* Cpu::di
di(m) == [m EXCEPT !.cpu.di_delay = 2]

\* Cpu::ei
ei(m) == [m EXCEPT !.cpu.ei_delay = 2]

\* Cpu::update_ime
update_ime(m) ==
    LET c == m.cpu
        c1 == IF c.di_delay > 0
                THEN [c EXCEPT !.ime = IF c.di_delay = 1 THEN FALSE ELSE @,
                               !.di_delay = @ - 1]
                ELSE c
        c2 == IF c1.ei_delay > 0
                THEN [c1 EXCEPT !.ime = IF c1.ei_delay = 1 THEN TRUE ELSE @,
                                !.ei_delay = @ - 1]
                ELSE c1
    IN  [m EXCEPT !.cpu = c2]

\* Cpu::disable_interrupt
disable_interrupt(m) == [m EXCEPT !.cpu.ime = FALSE]

\* Cpu::enable_interrupt
enable_interrupt(m) == [m EXCEPT !.cpu.ime = TRUE]

\* Cpu::set16
set16(m, a, v) == sys_set16(touch(step(m, 8), "set16", 16), a, v)

\* The byte is written without a step before it.
set8_unstepped(m, a, v) == sys_set8(touch(m, "set8", 8), a, v)

\* Cpu::set8
set8(m, a, v) == sys_set8(touch(step(m, 4), "set8", 8), a, v)

\* Cpu::get16: the machine after step(8) and the word read
get16(m, a) ==
    LET Got(m1, r) == [m |-> [touch(m1, "get16", 16) EXCEPT !.fault = Worse(@, r.fault)],
                       value |-> IF r.fault = "panic" THEN 0 ELSE r.value]
        Read(m1) == Got(m1, IF m1.fault = "panic" THEN Panic ELSE sys_get16(m1, a))
    IN  Read(step(m, 8))

\* Cpu::pop
pop(m) == get16([m EXCEPT !.cpu.sp = W16(@ + 2)], m.cpu.sp)

\* Cpu::push
push(m, v) ==
    LET p == W16(m.cpu.sp + 65536 - 2)
    IN  set16([m EXCEPT !.cpu.sp = p], p, v)

\* Cpu::set_pc
set_pc(m, v) == [m EXCEPT !.cpu.pc = v]

\* Cpu::set_sp
set_sp(m, v) == [m EXCEPT !.cpu.sp = v]

\* Cpu::jump
jump(m, a) == set_pc(step(m, 4), a)

\* Cpu::stop: todo!(), a panic
stop(m) == [m EXCEPT !.fault = "panic"]

\* self.push(self.get_pc())
push_pc(m) == push(m, m.cpu.pc)

\* The dispatch leaves the HALT state set.
interrupted_keeps_halt(m, vector_addr) ==
    jump(push_pc(step(disable_interrupt(m), 8)), vector_addr)

\* Cpu::interrupted
interrupted(m, vector_addr) ==
    jump(push_pc(step(disable_interrupt(
             IF m.cpu.halt THEN step([m EXCEPT !.cpu.halt = FALSE], 4) ELSE m), 8)),
         vector_addr)

\* A halted CPU with IME false is not woken by a pending interrupt.
check_interrupt_no_wake(m) ==
    IF ~m.cpu.ime THEN m
    ELSE LET r == poll(m.ic)
         IN  IF r.vec = None THEN m
             ELSE interrupted([m EXCEPT !.ic = r.ic], r.vec)

\* Cpu::check_interrupt (pop_int_vec is Ic::poll, peek_int_vec is Ic::peek)
check_interrupt(m) ==
    IF ~m.cpu.ime
      THEN IF m.cpu.halt /\ peek(m.ic).vec # None
             THEN [step(m, 4) EXCEPT !.cpu.halt = FALSE]
             ELSE m
    ELSE LET r == poll(m.ic)
         IN  IF r.vec = None THEN m
             ELSE interrupted([m EXCEPT !.ic = r.ic], r.vec)

\* Cpu::inc_pc
inc_pc(m) ==
    IF m.cpu.halt_bug
      THEN [m EXCEPT !.cpu.halt_bug = FALSE]
      ELSE [m EXCEPT !.cpu.pc = W16(@ + 1)]

\* Cpu::prefetch: the byte at PC is read without a step (which byte it is
\* is the instruction the action draws).
prefetch(m) == inc_pc(touch(m, "prefetch", 8))

\* Cpu::fetch8: get8 (step(4), then the read of the byte at PC), inc_pc
fetch8(m) == inc_pc(touch(step(m, 4), "get8", 8))

\* Cpu::fetch16
fetch16(m) == fetch8(fetch8(m))

\* Cpu::fetch_opcode: a 0xcb prefix fetches a second byte.
fetch_opcode(m, prefixed) == IF prefixed THEN fetch8(prefetch(m)) ELSE prefetch(m)


(***************************************************************************)
(* The instruction decoder.  An instruction is drawn by the action instead *)
(* of being read from memory; its operand values (an immediate, the        *)
(* register written to the bus) are part of the draw.  Each instruction    *)
(* makes one step(4) for its opcode fetch and one step per further bus     *)
(* access, so that the steps add up to its cycle count.                    *)
(*   nop 4, ei 4, di 4, halt 4, cb (any 0xcb-prefixed register op) 8,      *)
(*   ldh (a8),r 12: writes the value v to the address a.                   *)
(***************************************************************************)
decode(m, op) ==
    CASE op.k = "nop" -> step(m, 4)
      [] op.k = "ei" -> ei(step(m, 4))
      [] op.k = "di" -> di(step(m, 4))
      [] op.k = "halt" -> halt(step(m, 4))
      [] op.k = "cb" -> step(m, 4)
      [] op.k = "ldh" -> set8(fetch8(step(m, 4)), op.a, op.v)

\* The number of bytes of an instruction.
oplen(k) == CASE k = "cb" -> 2 [] k = "ldh" -> 2 [] OTHER -> 1

\* Cpu::execute up to the instruction boundary: the instruction (or the 4
\* cycles of a halted CPU).
run(m, op) ==
    LET m0 == [m EXCEPT !.cpu.cycles = 0, !.cpu.line = None, !.req = {}]
    IN  IF m0.cpu.halt THEN step(m0, 4)
        ELSE decode(fetch_opcode(m0, op.k = "cb"), op)

\* The state at the instruction boundary: after update_ime, before
\* check_interrupt.
boundary(m, op) == update_ime(run(m, op))

\* Interrupts are checked before the instruction instead of after it.
execute_check_first(m, op) == boundary(check_interrupt([m EXCEPT !.req = {}]), op)

\* Cpu::execute
execute(m, op) == check_interrupt([boundary(m, op) EXCEPT !.req = {}])

\* The variables take the devices of the machine f.
MachineDone(f) ==
    /\ cpu' = f.cpu
    /\ ic' = f.ic
    /\ tm' = f.tm
    /\ gpu' = f.gpu
    /\ mem' = f.mem
    /\ dma' = f.dma
    /\ mbc' = f.mbc
    /\ serial' = f.serial
    /\ joypad' = f.joypad
    /\ mixer' = f.mixer
    /\ sound' = f.sound
    /\ cgb' = f.cgb
    /\ fault' = f.fault
    /\ wram' = wram

(***************************************************************************)
(* The CPU specification: execute() on instructions drawn from Ops, from   *)
(* states a program can set up with DI, LD SP and writes to IE, IF, TAC    *)
(* and TIMA.                                                               *)
(***************************************************************************)
Ops == {[k |-> "nop"], [k |-> "ei"], [k |-> "di"], [k |-> "halt"], [k |-> "cb"],
        [k |-> "ldh", a |-> ADDR_IE, v |-> 5],
        [k |-> "ldh", a |-> ADDR_IF, v |-> 4],
        [k |-> "ldh", a |-> ADDR_TIMA, v |-> 255]}

\* SP after construction (0), after LD SP,0xfffe and after LD SP,0xff10
StackPointers == {0, 65534, 65296}

\* calls of the CPU's public methods between two calls of execute(), per
\* run; a call counts as one of the MaxInstr operations
MaxCalls == 1

\* The methods called: the interrupt master switch, the program counter
\* (0x0150), the stack pointer (0xfffe), a jump (to 0x0100) and stop
Calls == {[k |-> "enable_interrupt"], [k |-> "disable_interrupt"],
          [k |-> "set_pc", v |-> 336], [k |-> "set_sp", v |-> 65534],
          [k |-> "jump", v |-> 256], [k |-> "stop"]}

\* The machine after the call c
call(m, c) ==
    CASE c.k = "enable_interrupt" -> enable_interrupt(m)
      [] c.k = "disable_interrupt" -> disable_interrupt(m)
      [] c.k = "set_pc" -> set_pc(m, c.v)
      [] c.k = "set_sp" -> set_sp(m, c.v)
      [] c.k = "jump" -> jump(m, c.v)
      [] c.k = "stop" -> stop(m)

\* The timer after construction, and running at 262144 Hz with TIMA = 0xff
\* (TAC = 5), 4 or 8 cycles before TIMA overflows.
Timers == {TimerNew,
           [div |-> 1, div_clocks |-> 232, tim |-> 255, tim_clocks |-> 4,
            tim_load |-> 0, ctrl |-> 5],
           [div |-> 1, div_clocks |-> 236, tim |-> 255, tim_clocks |-> 8,
            tim_load |-> 0, ctrl |-> 5]}

(***************************************************************************)
(* The other devices after construction.  A specification that does not    *)
(* drive a device leaves it as constructed.                                *)
(***************************************************************************)
\* Dma::default
DmaNew == [on |-> FALSE, src |-> 0]

\* Serial::default
SerialNew == [data |-> 0, recv |-> 0, ctrl |-> 0, clock |-> 0]

\* Joypad::default
JoypadNew == [select |-> 255, pressed |-> 15]

\* Mixer::default and MixerStream::default: no channel has a stream
MixerNew == [so1_volume |-> 0, so2_volume |-> 0, so_mask |-> 0, enable |-> FALSE,
             volume |-> [id \in 0 .. 3 |-> 0], stream |-> [id \in 0 .. 3 |-> NoStream]]

\* Tone::default
ToneNew == [sweep_time |-> 0, sweep_sub |-> FALSE, sweep_shift |-> 0, sound_len |-> 0,
            wave_duty |-> 0, env_init |-> 0, env_inc |-> FALSE, env_count |-> 0,
            counter |-> FALSE, freq |-> 0]

\* Wave::default
WaveNew == [enable |-> FALSE, sound_len |-> 0, amp_shift |-> 0, counter |-> FALSE,
            freq |-> 0, wavebuf |-> [i \in 0 .. 15 |-> 0]]

\* Noise::default
NoiseNew == [sound_len |-> 0, env_init |-> 0, env_inc |-> FALSE, env_count |-> 0,
             shift_freq |-> 0, step |-> FALSE, div_freq |-> 0, counter |-> FALSE]

\* Sound::default
SoundNew == [tone1 |-> ToneNew, tone2 |-> ToneNew, wave |-> WaveNew, noise |-> NoiseNew]

\* Wram::new, for Wram<()> ("dmg") and Wram<WramCgbExtension> ("cgb").  The
\* banks hold the bytes written so far, keyed by <<bank, offset>>; every
\* other byte is 0 as after construction.  banks are the two banks of Wram,
\* ext_banks and bank_index the seven banks and the index of the extension.
WramNew(mode) == [mode |-> mode, banks |-> <<>>, ext_banks |-> <<>>, bank_index |-> 1]

\* Mbc::new for a cartridge without a bank controller (type 0x00)
MbcNoneNew == [kind |-> "None", rom_len |-> 32768, use_boot_rom |-> TRUE]

DevicesNew ==
    /\ dma = DmaNew
    /\ mbc = MbcNoneNew
    /\ serial = SerialNew
    /\ joypad = JoypadNew
    /\ mixer = MixerNew
    /\ wram = WramNew("dmg")
    /\ cgb = CgbNew
    /\ sound = SoundNew
    /\ fault = "none"

NoFrame == [t |-> 0, on_ly |-> None, emitted |-> {}, vblanks |-> 0, whole |-> FALSE,
            wrote |-> FALSE, blank |-> FALSE]

InitCpu ==
    /\ cpu \in {[CpuNew EXCEPT !.ime = i, !.sp = s] : i \in BOOLEAN, s \in StackPointers}
    /\ ic \in {[enable |-> e, request |-> r] :
                  e \in {{}, {VBLANK, TIMER}}, r \in {{}, {VBLANK, TIMER}}}
    /\ tm \in Timers
    /\ gpu = GpuNew
    /\ mem = NoMem
    /\ obs = [kind |-> "init"]
    /\ frm = [calls |-> 0]
    /\ n = 0
    /\ DevicesNew

\* One call of Cpu::execute.  obs keeps the instruction (op), the one before
\* it (prev), the CPU and the controller when execute() was called (pre,
\* pre_ic) and at the instruction boundary, after update_ime and before
\* check_interrupt (bnd, bnd_ic, bnd_mem), the interrupts the peripherals
\* requested during the instruction (bnd_req) and during check_interrupt
\* (disp_req), the bus accesses of the call (bus), and whether the call
\* before this one ended with an interrupt dispatch (after_dispatch).
Execute(op) ==
    /\ fault = "none"
    /\ n < MaxInstr
    /\ \E b \in {boundary(Machine, op)}, f \in {execute(Machine, op)} :
           /\ MachineDone(f)
           /\ obs' = [kind |-> "exec",
                      op |-> IF cpu.halt THEN "halted" ELSE op.k,
                      prev |-> IF obs.kind = "exec" THEN obs.op ELSE "none",
                      pre |-> cpu,
                      pre_ic |-> ic,
                      bnd |-> b.cpu,
                      bnd_ic |-> b.ic,
                      bnd_mem |-> b.mem,
                      bnd_req |-> b.req,
                      disp_req |-> f.req,
                      bus |-> f.bus,
                      after_dispatch |-> (/\ obs.kind = "exec"
                                          /\ obs.bnd.ime
                                          /\ obs.bnd_ic.enable \cap obs.bnd_ic.request # {})]
    /\ frm' = frm
    /\ n' = n + 1

\* A call of one of the CPU's public methods from outside execute()
\* (Cpu::enable_interrupt, disable_interrupt, set_pc, set_sp, jump, stop).
Call(c) ==
    /\ fault = "none"
    /\ n < MaxInstr
    /\ frm.calls < MaxCalls
    /\ MachineDone(call(Machine, c))
    /\ obs' = [kind |-> "call", name |-> c.k, pre |-> cpu]
    /\ frm' = [frm EXCEPT !.calls = @ + 1]
    /\ n' = n + 1

NextCpu ==
    \/ \E op \in Ops : Execute(op)
    \/ \E c \in Calls : Call(c)

SpecCpu == InitCpu /\ [][NextCpu]_vars

(***************************************************************************)
(* The interrupt dispatch specification: the CPU specification from every  *)
(* stack pointer whose push lands on IE or IF.  From SP = 1, the one stack *)
(* pointer from which the push adds past 0xffff and writes to the          *)
(* cartridge, the program is a debug or a release build (frm.build), with  *)
(* or without a bank controller in the cartridge; from the others the push *)
(* involves neither.                                                       *)
(***************************************************************************)
\* SP after construction (0) and after LD SP with 0x0001, 0xfffe, 0xff10 and
\* 0xff11: the pushed PC lands on IE from 0 and 1, on IF from 0xff10 and
\* 0xff11
DispatchSps == {0, 1, 65534, 65296, 65297}

\* The program is a debug or a release build
Builds == {"debug", "release"}

\* The cartridge without a bank controller, behind the boot ROM as after
\* construction, and an MBC1 cartridge after the boot ROM was turned off
Cartridges == {MbcNoneNew, [Mbc1New(65536) EXCEPT !.use_boot_rom = FALSE]}

\* The stack pointer, the build and the cartridge of a run
Setups ==
    {[sp |-> s, build |-> "release", mbc |-> MbcNoneNew] : s \in DispatchSps \ {1}}
        \cup {[sp |-> 1, build |-> b, mbc |-> c] : b \in Builds, c \in Cartridges}

InitDispatch ==
    /\ \E u \in Setups :
           /\ cpu \in {[CpuNew EXCEPT !.ime = i, !.sp = u.sp] : i \in BOOLEAN}
           /\ frm = [calls |-> 0, build |-> u.build]
           /\ mbc = u.mbc
    /\ ic \in {[enable |-> e, request |-> r] :
                  e \in {{}, {VBLANK, TIMER}}, r \in {{}, {VBLANK, TIMER}}}
    /\ tm \in Timers
    /\ gpu = GpuNew
    /\ mem = NoMem
    /\ obs = [kind |-> "init"]
    /\ n = 0
    /\ dma = DmaNew
    /\ serial = SerialNew
    /\ joypad = JoypadNew
    /\ mixer = MixerNew
    /\ wram = WramNew("dmg")
    /\ cgb = CgbNew
    /\ sound = SoundNew
    /\ fault = "none"

SpecDispatch == InitDispatch /\ [][NextCpu]_vars

(***************************************************************************)
(* The interrupt controller specification: writes of any byte to IE and    *)
(* IF, and peek and poll, from the controller after construction.          *)
(***************************************************************************)
Bytes == 0 .. 255

InitIc ==
    /\ cpu = CpuNew
    /\ ic = IcNew
    /\ tm = TimerNew
    /\ gpu = GpuNew
    /\ mem = NoMem
    /\ obs = [kind |-> "init"]
    /\ frm = NoFrame
    /\ n = 0
    /\ DevicesNew

IcWrite(addr, value) ==
    /\ ic' = ic_on_write(ic, addr, value)
    /\ obs' = [kind |-> "write"]
    /\ UNCHANGED <<cpu, tm, gpu, mem, frm, n, devs>>

\* obs keeps the controller before the call and the value returned.
IcPeek ==
    /\ ic' = peek(ic).ic
    /\ obs' = [kind |-> "check", consume |-> FALSE, pre_ic |-> ic, vec |-> peek(ic).vec]
    /\ UNCHANGED <<cpu, tm, gpu, mem, frm, n, devs>>

IcPoll ==
    /\ ic' = poll(ic).ic
    /\ obs' = [kind |-> "check", consume |-> TRUE, pre_ic |-> ic, vec |-> poll(ic).vec]
    /\ UNCHANGED <<cpu, tm, gpu, mem, frm, n, devs>>

NextIc ==
    \/ \E addr \in {ADDR_IE, ADDR_IF}, value \in Bytes : IcWrite(addr, value)
    \/ IcPeek
    \/ IcPoll

SpecIc == InitIc /\ [][NextIc]_vars

(***************************************************************************)
(* The PPU specification with the LCD on: the program turns the LCD on     *)
(* with LCDC = 0x91 and the PPU is then stepped 4 or 8 cycles at a time,   *)
(* as Cpu::step does.  STAT and LY are written at any time, and on the     *)
(* lines OffLines the program turns the LCD off (LCDC = 0x11), to turn it  *)
(* on again on the line at which write_ctrl left LY.                       *)
(*                                                                         *)
(* frm accounts for the frame in progress by counting cycles, without      *)
(* looking at the PPU.  t is the position in a frame of 154 lines of 456   *)
(* cycles: the cycles since line 0 of the frame began.  Turning the LCD on *)
(* at LY = k sets it to the start of the HBLANK of line k (OnPos), a step  *)
(* advances it (modulo the frame), a write to LY takes it back to line 0   *)
(* at the same cycle of the line.  on_ly is the line at which the LCD was  *)
(* turned on, in the frame in which it was turned on and until LY is       *)
(* written.  emitted is the lines drawn and vblanks the VBLANK requests in *)
(* this frame so far (counted up to 2), whole whether the frame began with *)
(* line 0's OAM scan (the frame in which the LCD is turned on does not),   *)
(* wrote whether LY was written in this frame (of such a frame only t and  *)
(* vblanks are recorded), blank whether it was written during VBLANK.  A   *)
(* frame ends on the step that takes the PPU from VBLANK to OAM_SCAN.      *)
(***************************************************************************)
\* The values written to STAT: no source, the VBLANK source (bit 4), every
\* source (bits 3..6)
StatValues == {0, 16, 120}

\* The lines on which the program turns the LCD off: the first two, the
\* last visible one, the first and the last two of VBLANK, and the line 154
\* that the PPU passes through when it was turned on at LY = 153
OffLines == {0, 1, 143, 144, 152, 153, 154}

LcdOn(g) == Bit(g.lcd_control, LCD_PPU_ENABLE) = 1

\* Gpu::new with the DMG extension and with the CGB extension
Gpus == {GpuNew, [GpuNew EXCEPT !.cgb_ext = GpuCgbExtensionNew]}

InitPpu ==
    /\ cpu = CpuNew
    /\ ic = IcNew
    /\ tm = TimerNew
    /\ gpu \in Gpus
    /\ mem = NoMem
    /\ obs = [kind |-> "init"]
    /\ frm = NoFrame
    /\ n = 0
    /\ DevicesNew

WriteStat(value) ==
    /\ fault = "none"
    /\ gpu' = write_status(gpu, value)
    /\ obs' = [kind |-> "write"]
    /\ UNCHANGED <<cpu, ic, tm, mem, frm, n, devs>>

\* The position in the frame of the start of the HBLANK of line k.  Turned
\* on at LY = k >= 153 the PPU has two lines left before line 0, as if it
\* had been turned on at LY = 152.
OnPos(k) == 456 * (IF k < 153 THEN k ELSE 152) + 80 + 172

TurnOn ==
    /\ fault = "none"
    /\ ~LcdOn(gpu)
    /\ gpu' = write_ctrl(gpu, 145)
    /\ ic' = [ic EXCEPT !.request = @ \ {VBLANK}]
    /\ obs' = [kind |-> "write"]
    /\ frm' = [NoFrame EXCEPT !.t = OnPos(gpu.ly), !.on_ly = gpu.ly]
    /\ UNCHANGED <<cpu, tm, mem, n, devs>>

TurnOff ==
    /\ fault = "none"
    /\ LcdOn(gpu)
    /\ gpu.ly \in OffLines
    /\ gpu' = write_ctrl(gpu, 17)
    /\ ic' = [ic EXCEPT !.request = @ \ {VBLANK}]
    /\ obs' = [kind |-> "write"]
    /\ frm' = NoFrame
    /\ UNCHANGED <<cpu, tm, mem, n, devs>>

\* A write to LY (0xff44), which Gpu::clear_ly answers by setting LY to 0,
\* whether the LCD is on or off.
ResetLy ==
    /\ fault = "none"
    /\ gpu' = clear_ly(gpu)
    /\ obs' = [kind |-> "write"]
    /\ frm' = IF LcdOn(gpu)
                THEN [NoFrame EXCEPT !.t = frm.t % 456, !.vblanks = frm.vblanks,
                                     !.wrote = TRUE, !.blank = (gpu.mode = "VBlank")]
                ELSE frm
    /\ UNCHANGED <<cpu, ic, tm, mem, n, devs>>

\* The frame account after a step that returned r.
frame_after(g, r, time) ==
    IF g.mode = "VBlank" /\ r.gpu.mode = "OamScan"
      THEN [NoFrame EXCEPT !.t = (frm.t + time) % (154 * 456), !.whole = TRUE]
      ELSE [frm EXCEPT !.t = (frm.t + time) % (154 * 456),
                       !.emitted = IF frm.wrote THEN {} ELSE @ \cup ({r.line} \ {None}),
                       !.vblanks = IF VBLANK \in r.irq /\ @ < 2 THEN @ + 1 ELSE @]

\* One call of Gpu::step.  obs keeps the mode, LY and STAT before the call,
\* the interrupts requested and the line drawn by it, whether that line had
\* been drawn in this frame before, whether LY was written in this frame,
\* and, when the step ends a frame, the account of the frame it ends.  A
\* step that panics ends the program.
PpuStep(time) ==
    /\ fault = "none"
    /\ LcdOn(gpu)
    /\ \E r \in {gpu_step(gpu, time)} :
           IF r.fault = "panic"
             THEN /\ fault' = "panic"
                  /\ obs' = [kind |-> "panic", pre_mode |-> gpu.mode, pre_ly |-> gpu.ly]
                  /\ UNCHANGED <<gpu, ic, frm>>
             ELSE /\ gpu' = r.gpu
                  /\ ic' = [ic EXCEPT !.request = @ \cup r.irq]
                  /\ obs' = [kind |-> "step",
                             pre_mode |-> gpu.mode,
                             pre_ly |-> gpu.ly,
                             pre_status |-> gpu.lcd_status,
                             irq |-> r.irq,
                             line |-> r.line,
                             again |-> r.line \in frm.emitted,
                             wrote |-> frm.wrote,
                             ended |-> IF gpu.mode = "VBlank" /\ r.gpu.mode = "OamScan"
                                         THEN {frm} ELSE {}]
                  /\ frm' = frame_after(gpu, r, time)
                  /\ fault' = fault
    /\ UNCHANGED <<cpu, tm, mem, n, dma, mbc, serial, joypad, mixer, wram, cgb, sound>>

NextPpuOn ==
    \/ \E value \in StatValues : WriteStat(value)
    \/ TurnOn
    \/ TurnOff
    \/ ResetLy
    \/ \E time \in {4, 8} : PpuStep(time)

SpecPpuOn == InitPpu /\ [][NextPpuOn]_vars

(***************************************************************************)
(* The PPU specification with register writes: the PPU is stepped 4 or 8   *)
(* cycles at a time whether the LCD is on or off, LCDC is written with the *)
(* LCD bit clear (0x11) or set (0x91), and LY is written.                  *)
(***************************************************************************)
StepPpu(time) ==
    /\ fault = "none"
    /\ \E r \in {gpu_step(gpu, time)} :
           /\ gpu' = r.gpu
           /\ ic' = [ic EXCEPT !.request = @ \cup r.irq]
           /\ fault' = r.fault
           /\ obs' = [kind |-> IF r.fault = "panic" THEN "panic" ELSE "step"]
    /\ frm' = frm
    /\ UNCHANGED <<cpu, tm, mem, n, dma, mbc, serial, joypad, mixer, wram, cgb, sound>>

WriteCtrl(value) ==
    /\ fault = "none"
    /\ gpu' = write_ctrl(gpu, value)
    /\ ic' = [ic EXCEPT !.request = @ \ {VBLANK}]
    /\ obs' = [kind |-> "write"]
    /\ UNCHANGED <<cpu, tm, mem, frm, n, devs>>

WriteLy ==
    /\ fault = "none"
    /\ gpu' = clear_ly(gpu)
    /\ obs' = [kind |-> "write"]
    /\ UNCHANGED <<cpu, ic, tm, mem, frm, n, devs>>

NextPpu ==
    \/ \E time \in {4, 8} : StepPpu(time)
    \/ \E value \in {17, 145} : WriteCtrl(value)
    \/ WriteLy

SpecPpu == InitPpu /\ [][NextPpu]_vars

(***************************************************************************)
(* Claims about the interrupt controller.                                  *)
(***************************************************************************)
\* The bits set in both IE and IF
Pending(c) == c.enable \cap c.request

\* The vector of interrupt bit b: 0x40, 0x48, 0x50, 0x58, 0x60
VectorOf(b) == 64 + 8 * b

\* C2: for every IE and IF, peek and poll return the vector of the
\* lowest-numbered bit set in both IE and IF, and return nothing exactly when
\* no bit is set in both; poll clears that bit's request and nothing else,
\* peek leaves IF as it was, and neither changes IE.
C2_LowestPendingWins ==
    obs.kind = "check" =>
        LET p == Pending(obs.pre_ic)
        IN  /\ (obs.vec = None) <=> (p = {})
            /\ p # {} => obs.vec = VectorOf(Min(p))
            /\ ic.enable = obs.pre_ic.enable
            /\ ic.request = IF obs.consume /\ p # {}
                              THEN obs.pre_ic.request \ {Min(p)}
                              ELSE obs.pre_ic.request

\* C2 witness: poll on IE = IF = 0x1e (everything but VBLANK) returned the
\* LCD STAT vector 0x48 and left TIMER, SERIAL and JOYPAD requested.
C2_Witness ==
    /\ obs.kind = "check"
    /\ obs.consume
    /\ obs.pre_ic = [enable |-> {LCD, TIMER, SERIAL, JOYPAD},
                     request |-> {LCD, TIMER, SERIAL, JOYPAD}]
    /\ obs.vec = 72
    /\ ic.request = {TIMER, SERIAL, JOYPAD}

(***************************************************************************)
(* Claims about the instruction boundary of the CPU, read off obs after    *)
(* each execute().                                                         *)
(***************************************************************************)
\* The instruction ended with IME true and an interrupt enabled and pending.
DispatchCase == obs.kind = "exec" /\ obs.bnd.ime /\ Pending(obs.bnd_ic) # {}

\* The stack pointer after the push of the dispatch, the two addresses the
\* pushed PC is written to, and the byte of it written to each.
PushedSp == W16(obs.bnd.sp + 65536 - 2)
PushAddrs == {PushedSp, W16(PushedSp + 1)}
PushedByte(a) == IF a = PushedSp THEN Lo(obs.bnd.pc) ELSE Hi(obs.bnd.pc)

\* The push of the dispatch panics: the low byte is written at 0xffff (IE)
\* and the address of the high byte overflows; a debug build panics on the
\* sum, a release build writes the high byte to 0x0000, which panics for
\* the boot ROM and for a cartridge without a bank controller.
PushPanics ==
    /\ add_overflows(PushedSp)
    /\ frm.build = "debug" \/ mbc.use_boot_rom \/ mbc.kind = "None"

\* The addresses sys_set8 hands to a device; a write anywhere else below
\* the echo area is kept in mem at that address.
DeviceAddrs ==
    {ADDR_IF, ADDR_IE, ADDR_LCDC, ADDR_STAT, ADDR_LY, ADDR_LYC}
        \cup (ADDR_DIV .. ADDR_TAC) \cup (57344 .. 65023)

\* What every dispatch does: HALT cleared, IME false, SP down by 2, PC at the
\* vector of the lowest-numbered pending bit.
DispatchedTo(b) ==
    /\ ~cpu.halt
    /\ ~cpu.ime
    /\ cpu.sp = PushedSp
    /\ cpu.pc = VectorOf(b)

C3_AsStated ==
    obs.kind = "exec" =>
        /\ obs.op = "ei" => obs.bnd.ei_delay = 1
        /\ obs.op = "di" => obs.bnd.di_delay = 1
        /\ obs.prev = "ei" => obs.bnd.ime
        /\ obs.prev = "di" => ~obs.bnd.ime

\* C4 as stated: after a HALT executed with IME false and an interrupt
\* enabled and pending, HALT_BUG is set, HALT is not, and the next opcode is
\* fetched from the byte after the HALT (the PC of the boundary); the fetch
\* made with HALT_BUG set leaves PC where it was and clears the flag.
C4_AsStated ==
    obs.kind = "exec" =>
        /\ (obs.op = "halt" /\ ~obs.pre.ime /\ Pending(obs.bnd_ic) # {}) =>
               /\ obs.bnd.halt_bug
               /\ ~obs.bnd.halt
        /\ cpu.halt_bug => cpu.pc = obs.bnd.pc
        /\ (obs.pre.halt_bug /\ obs.op # "halted") =>
               /\ obs.bnd.pc = W16(obs.pre.pc + oplen(obs.op) - 1)
               /\ obs.op # "halt" => ~obs.bnd.halt_bug

\* The CPU is halted with IME false at the boundary and an interrupt is
\* enabled and pending.
WakeCase ==
    obs.kind = "exec" /\ obs.bnd.halt /\ ~obs.bnd.ime /\ Pending(obs.bnd_ic) # {}

\* C5: a halted CPU with IME false and an interrupt enabled and pending at
\* the end of execute() leaves HALT and spends 4 more cycles; the interrupt
\* is not taken: IME stays false, no IF bit is cleared, IE, SP, PC and memory
\* are as they were at the boundary.
C5_WakeWithoutDispatch ==
    WakeCase =>
        /\ ~cpu.halt
        /\ cpu.cycles = obs.bnd.cycles + 4
        /\ ~cpu.ime
        /\ ic.request = obs.bnd_ic.request \cup obs.disp_req
        /\ ic.enable = obs.bnd_ic.enable
        /\ cpu.sp = obs.bnd.sp
        /\ cpu.pc = obs.bnd.pc
        /\ mem = obs.bnd_mem

\* C5 witness: the TIMER request raised while the CPU was halted woke it.
C5_Witness ==
    /\ WakeCase
    /\ obs.op = "halted"
    /\ obs.bnd_req = {TIMER}
    /\ ~cpu.halt
    /\ cpu.cycles = 8
    /\ TIMER \in ic.request

\* The interrupts a peripheral requested during the instruction that are
\* enabled and still requested when its last step is done, with IME true.
RaisedInInstruction ==
    IF obs.kind = "exec" /\ obs.bnd.ime
      THEN obs.bnd_req \cap Pending(obs.bnd_ic)
      ELSE {}

LineAt(p) == p \div 456

PpuAt(p) ==
    LET l == p \div 456
        o == p % 456
    IN  /\ gpu.ly = l
        /\ gpu.mode = IF l >= VRAM_HEIGHT THEN "VBlank"
                      ELSE IF o < 80 THEN "OamScan"
                      ELSE IF o < 80 + 172 THEN "Drawing"
                      ELSE "HBlank"
        /\ gpu.clocks = IF l >= VRAM_HEIGHT THEN o
                        ELSE IF o < 80 THEN o
                        ELSE IF o < 80 + 172 THEN o - 80
                        ELSE o - (80 + 172)

\* The LCD was turned on in this frame, and LY was not written since
TurnedOn == frm.on_ly # None

\* The PPU is on the line on which the LCD was turned on
TurnOnLine == TurnedOn /\ LineAt(frm.t) = LineAt(OnPos(frm.on_ly))

\* The cycles stepped since the LCD was turned on, in the frame in which it
\* was turned on
SinceOn == frm.t - OnPos(frm.on_ly)

LineOnHBlankEntry ==
    /\ (obs.line # None) <=> (obs.pre_mode = "Drawing" /\ gpu.mode = "HBlank")
    /\ obs.line # None =>
           /\ obs.line = obs.pre_ly
           /\ obs.line \in 0 .. VRAM_HEIGHT - 1
           /\ ~obs.wrote => ~obs.again

C9_VblankOncePerFrame ==
    obs.kind = "step" =>
        /\ (VBLANK \in obs.irq) <=> (obs.pre_mode = "HBlank" /\ gpu.mode = "VBlank")
        /\ (obs.pre_mode = "HBlank" /\ gpu.mode # "HBlank") =>
               /\ gpu.ly = obs.pre_ly + 1
               /\ gpu.ly > 143 =>
                      /\ gpu.mode = "VBlank"
                      /\ VBLANK \in obs.irq
                      /\ (LCD \in obs.irq) <=>
                             \/ VBLANK_INT \in obs.pre_status
                             \/ LYC_INT \in obs.pre_status /\ gpu.lyc = gpu.ly
               /\ gpu.ly <= 143 =>
                      /\ gpu.mode = "OamScan"
                      /\ VBLANK \notin obs.irq
        /\ \A f \in obs.ended : f.vblanks = 1

\* C9 witness: the step that ended HBLANK of line 143 with STAT bit 4 set
\* requested VBLANK and LCD STAT, in a frame begun with line 0.
C9_Witness ==
    /\ obs.kind = "step"
    /\ obs.pre_mode = "HBlank"
    /\ obs.pre_status = {VBLANK_INT}
    /\ gpu.ly = 144
    /\ obs.irq = {VBLANK, LCD}
    /\ frm.whole
    /\ frm.vblanks = 1

(***************************************************************************)
(* Claims about the PPU under register writes.                             *)
(***************************************************************************)
\* C10 as stated: whatever the interleaving of steps, LCDC writes and LY
\* writes, LY is within 0..153.
C10_AsStated == gpu.ly \in 0 .. 153

\* C11 as stated: whenever the LCD is off (LCDC bit 7 clear), LY is 0 and
\* the PPU mode is OFF (Mode::None), in particular right after the LCDC
\* write that turns the LCD off.
C11_AsStated == ~LcdOn(gpu) => gpu.ly = 0 /\ gpu.mode = "None"

(***************************************************************************)
(* The timer specification: from construction the program writes the timer *)
(* registers (at most MaxTimerWrites times) and the timer is stepped 4 or  *)
(* 8 cycles at a time, as Cpu::step does, and also 1 cycle at a time while *)
(* a period of at most MaxFinePeriod cycles is selected.  While the timer  *)
(* is enabled, frm.t is the number                                         *)
(* of cycles stepped since the write that enabled it, and frm.ok tells     *)
(* that the frequency selection was not changed since; while it is         *)
(* disabled, frm.t is the number of cycles stepped since it was disabled   *)
(* (or since construction).                                                *)
(***************************************************************************)
\* register writes per run of the timer specification
MaxTimerWrites == 3

\* the longest period that is also stepped 1 cycle at a time
MaxFinePeriod == 64

\* cycles stepped while the timer is disabled
MaxIdleCycles == 8

\* The values written: TAC off and on with each frequency, a TIMA two
\* increments before the overflow, a non-zero TMA.
TimerWrites ==
    ({ADDR_TAC} \X {0, 4, 5, 6, 7}) \cup {<<ADDR_TIMA, 254>>, <<ADDR_TMA, 171>>,
                                          <<ADDR_DIV, 0>>}

\* Timer enabled: TAC bit 2
TimerOn(t) == Bit(t.ctrl, 2) = 1

\* Cycles a run is followed after the enable: past the second increment
TimerHorizon(t) == 2 * tim_clock_reset(t).tim_clocks + 8

InitTimer ==
    /\ cpu = CpuNew
    /\ ic = IcNew
    /\ tm = TimerNew
    /\ gpu = GpuNew
    /\ mem = NoMem
    /\ obs = [kind |-> "init"]
    /\ frm = [t |-> 0, ok |-> FALSE]
    /\ n = 0
    /\ DevicesNew

\* The account after a register write that took the timer from t0 to t1.
timer_account(t0, t1) ==
    IF ~TimerOn(t1) THEN [t |-> IF TimerOn(t0) THEN 0 ELSE frm.t, ok |-> FALSE]
    ELSE IF ~TimerOn(t0) THEN [t |-> 0, ok |-> TRUE]
    ELSE IF t1.ctrl % 4 = t0.ctrl % 4 THEN frm
    ELSE [frm EXCEPT !.ok = FALSE]

TimerWrite(addr, value) ==
    /\ fault = "none"
    /\ n < MaxTimerWrites
    /\ \E r \in {timer_on_write(tm, addr, value)} :
           /\ tm' = r.tm
           /\ fault' = r.fault
           /\ frm' = timer_account(tm, r.tm)
    /\ obs' = [kind |-> "write", addr |-> addr, pre |-> tm]
    /\ n' = n + 1
    /\ UNCHANGED <<cpu, ic, gpu, mem, dma, mbc, serial, joypad, mixer, wram, cgb, sound>>

\* One call of Timer::step.  obs keeps the timer and the account before
\* the call and the interrupts it requested.
TimerStep(time) ==
    /\ fault = "none"
    /\ frm.t + time <= (IF TimerOn(tm) THEN TimerHorizon(tm) ELSE MaxIdleCycles)
    /\ time = 1 => tim_clock_reset(tm).tim_clocks <= MaxFinePeriod
    /\ \E r \in {timer_step(tm, time)} :
           /\ tm' = r.tm
           /\ ic' = [ic EXCEPT !.request = @ \cup r.irq]
           /\ fault' = IF r.overflow THEN "overflow" ELSE fault
           /\ obs' = [kind |-> "step", time |-> time, pre |-> tm, acc |-> frm,
                      irq |-> r.irq]
    /\ frm' = [frm EXCEPT !.t = @ + time]
    /\ UNCHANGED <<cpu, gpu, mem, n, dma, mbc, serial, joypad, mixer, wram, cgb, sound>>

NextTimer ==
    \/ \E w \in TimerWrites : TimerWrite(w[1], w[2])
    \/ \E time \in {1, 4, 8} : TimerStep(time)

SpecTimer == InitTimer /\ [][NextTimer]_vars

(***************************************************************************)
(* Claims about the timer.                                                 *)
(***************************************************************************)
\* The period the claim gives for TAC bits 1..0
Period(ctrl) ==
    CASE ctrl % 4 = 0 -> 1024
      [] ctrl % 4 = 1 -> 16
      [] ctrl % 4 = 2 -> 64
      [] OTHER -> 256

\* The step over the cycles e+1 .. e+time since the enable contains the
\* cycle k * p + 1 of some k >= 1, the cycle right after a whole period.
Due(e, time, p) == \E k \in 1 .. ((e + time) \div p) : e < k * p + 1 /\ k * p + 1 <= e + time

\* The step incremented TIMA (an overflow shows as the interrupt).
Incremented == tm.tim # obs.pre.tim \/ TIMER \in obs.irq

\* A step of the enabled timer whose frequency selection is the one it was
\* enabled with.
TimedStep == obs.kind = "step" /\ TimerOn(obs.pre) /\ obs.acc.ok

\* C12: with the timer enabled by a TAC write that selects the period p
\* (1024, 16, 64, 256 cycles for TAC bits 1..0 = 0, 1, 2, 3), TIMA is
\* incremented exactly in the steps that contain the cycle k * p + 1 after
\* the enable, k = 1, 2, ..., and there once: the first increment comes
\* within 1 cycle of p after the enable and consecutive increments are p
\* cycles apart.
C12_Period ==
    TimedStep =>
        /\ Incremented <=> Due(obs.acc.t, obs.time, Period(obs.pre.ctrl))
        /\ TIMER \notin obs.irq => tm.tim \in {obs.pre.tim, obs.pre.tim + 1}

\* C12 witness: 2048 cycles after the timer was enabled with the 1024-cycle
\* period, the step made the second increment of TIMA.
C12_Witness ==
    /\ TimedStep
    /\ obs.pre.ctrl = 4
    /\ obs.acc.t = 2048
    /\ obs.pre.tim = 1
    /\ tm.tim = 2

\* C13: a timer step requests the TIMER interrupt exactly when it
\* increments TIMA from 0xFF, and TIMA then holds the current TMA; a step
\* that requests none leaves TIMA or increments it by one without passing
\* 0xFF; a step in which an increment is due with TIMA = 0xFF requests it.
C13_OverflowReloads ==
    obs.kind = "step" =>
        /\ TIMER \in obs.irq =>
               /\ TimerOn(obs.pre)
               /\ obs.pre.tim = 255
               /\ tm.tim = obs.pre.tim_load
               /\ TIMER \in ic.request
        /\ TIMER \notin obs.irq =>
               /\ tm.tim \in {obs.pre.tim, obs.pre.tim + 1}
               /\ tm.tim <= 255
        /\ (TimedStep /\ obs.pre.tim = 255
              /\ Due(obs.acc.t, obs.time, Period(obs.pre.ctrl))) => TIMER \in obs.irq
        /\ tm.tim_load = obs.pre.tim_load

\* C13 witness: a step incremented TIMA from 0xFF with TMA = 171 written
\* before; the interrupt was requested and TIMA holds 171.
C13_Witness ==
    /\ obs.kind = "step"
    /\ obs.pre.tim = 255
    /\ obs.pre.tim_load = 171
    /\ obs.irq = {TIMER}
    /\ tm.tim = 171

(***************************************************************************)
(* The DMA specification: the source pages hold data, the program writes   *)
(* 0xff46 with a source page, writes a byte into work RAM or its echo, and *)
(* the DMA engine is stepped; MaxDmaOps operations per run.  Every access  *)
(* goes through the bus of the MMU.                                        *)
(***************************************************************************)
\* operations per run of the DMA specification
MaxDmaOps == 4

\* Source pages written to 0xff46: the ends of the ROM range 0x00..0x7f, of
\* the VRAM range 0x80..0x9f with the pages next to them, of the WRAM
\* range 0xc0..0xdf, the first page of the echo (0xe0) and the page of the
\* I/O registers (0xff)
DmaPages == {0, 127, 128, 129, 158, 159, 192, 223, 224, 255}

\* The byte stored at address a of a source page, for the data set s
SourceByte(a, s) == (Hi(a) + 3 * Lo(a) + s) % 256

\* The VRAM after the program filled the source pages 0x80, 0x81, 0x9e and
\* 0x9f with the data set s
SourceVram(s) ==
    [k \in {p * 256 + i - 32768 : p \in {128, 129, 158, 159}, i \in 0 .. DMA_LENGTH - 1} |->
        SourceByte(k + 32768, s)]

\* The work RAM banks after the program filled the source pages 0xc0 (bank
\* 0) and 0xdf (bank 1)
SourceWram(s) ==
    [k \in {<<0, i>> : i \in 0 .. DMA_LENGTH - 1}
           \cup {<<1, 3840 + i>> : i \in 0 .. DMA_LENGTH - 1} |->
        SourceByte((IF k[1] = 0 THEN 49152 ELSE 53248) + k[2], s)]

\* The RAM array of the MMU after those writes: the handlers of VRAM and
\* work RAM pass the write through, so that the array holds the same bytes.
SourceRam(s) ==
    [a \in {p * 256 + i : p \in {128, 129, 158, 159, 192, 223}, i \in 0 .. DMA_LENGTH - 1} |->
        SourceByte(a, s)]

InitDma ==
    /\ cpu = CpuNew
    /\ ic = IcNew
    /\ tm = TimerNew
    /\ \E s \in {1, 2} :
           /\ gpu = [GpuNew EXCEPT !.vram = SourceVram(s)]
           /\ cgb = [CgbNew EXCEPT !.wram_bank = SourceWram(s)]
           /\ mem = SourceRam(s)
    /\ mbc \in {[MbcNoneNew EXCEPT !.use_boot_rom = b] : b \in BOOLEAN}
    /\ dma = DmaNew
    /\ serial = SerialNew
    /\ joypad = JoypadNew
    /\ mixer = MixerNew
    /\ wram = WramNew("dmg")
    /\ sound = SoundNew
    /\ fault = "none"
    /\ obs = [kind |-> "init"]
    /\ frm = NoFrame
    /\ n = 0

\* A write of the program to 0xff46
DmaWrite(value) ==
    /\ fault = "none"
    /\ n < MaxDmaOps
    /\ MachineDone(sys_set8(Machine, ADDR_DMA, value))
    /\ obs' = [kind |-> "write"]
    /\ n' = n + 1
    /\ frm' = frm

\* A write of the program into work RAM (0xc000..0xdfff) or its echo
WramWrite(addr, value) ==
    /\ fault = "none"
    /\ n < MaxDmaOps
    /\ MachineDone(sys_set8(Machine, addr, value))
    /\ obs' = [kind |-> "write"]
    /\ n' = n + 1
    /\ frm' = frm

\* One call of Dma::step.  obs keeps the machine before it.
DmaStep ==
    /\ fault = "none"
    /\ n < MaxDmaOps
    /\ MachineDone(dma_step(Machine))
    /\ obs' = [kind |-> "dma_step", pre |-> Machine]
    /\ n' = n + 1
    /\ frm' = frm

\* The addresses the program writes: the first byte of work RAM, a byte of
\* page 0xdf, and the echo of the second byte of work RAM
DmaWramAddrs == {49152, 57183, 57345}

NextDma ==
    \/ \E value \in DmaPages : DmaWrite(value)
    \/ \E addr \in DmaWramAddrs, value \in {90} : WramWrite(addr, value)
    \/ DmaStep

SpecDma == InitDma /\ [][NextDma]_vars

\* The source pages the specification permits: 0x00..0x7f, 0x80..0x9f and
\* 0xc0..0xdf
PermittedPages == (0 .. 127) \cup (128 .. 159) \cup (192 .. 223)

\* C14 as stated: after a write of v to 0xff46 with v in a permitted source
\* page, the DMA step completes and every OAM byte 0xfe00 + i, i in 0..159,
\* equals the byte at (v << 8) + i.
C14_AsStated ==
    (obs.kind = "dma_step" /\ obs.pre.dma.on /\ obs.pre.dma.src \in PermittedPages) =>
        /\ fault = "none"
        /\ \A i \in 0 .. DMA_LENGTH - 1 :
               sys_get8(Machine, ADDR_OAM + i)
                 = sys_get8(obs.pre, obs.pre.dma.src * 256 + i)

\* The transfer of a page that passes the assertion copies the 160 bytes
\* the bus returns at the source: from the ROM, from VRAM page 0x80 or
\* 0x9f, from work RAM, and from the echo the bytes of the RAM array 0x2000
\* below.
DmaCopies ==
    (obs.kind = "dma_step" /\ obs.pre.dma.on /\ dma_assert(obs.pre.dma) /\ fault = "none") =>
        /\ ~dma.on
        /\ \A i \in 0 .. DMA_LENGTH - 1 :
               /\ sys_get8(Machine, ADDR_OAM + i)
                    = sys_get8(obs.pre, obs.pre.dma.src * 256 + i)
               /\ obs.pre.dma.src = 224 =>
                      ram_get8(mem, ADDR_OAM + i) = ram_get8(obs.pre.mem, 49152 + i)

\* A transfer from the echo page 0xe0 has been made after the program wrote
\* the echo.
DmaEchoCopied ==
    /\ obs.kind = "dma_step"
    /\ obs.pre.dma.on
    /\ obs.pre.dma.src = 224
    /\ fault = "none"
    /\ ram_get8(mem, ADDR_OAM + 1) = 90

\* The transfer from the page of the I/O registers reads them through their
\* handlers, and the read of a sound register that has no read arm panics.
DmaIoPagePanics ==
    (obs.kind = "dma_step" /\ obs.pre.dma.on /\ obs.pre.dma.src = 255) => fault = "panic"

(***************************************************************************)
(* The cartridge specifications.  The program writes and reads cartridge   *)
(* addresses through Mbc::on_write and Mbc::on_read; a panic ends the run. *)
(* obs keeps the address, the value written or read, the controller before *)
(* the operation, the RAM images passed to save_ram and, in last, the      *)
(* write made just before a read.                                          *)
(***************************************************************************)
\* operations per run of the cartridge RAM specification
MaxMbcOps == 4

\* operations per run of the ROM bank specification
MaxBankOps == 3

\* ROM images of 4 banks (64 KiB) and of 128 banks (2 MiB)
RomLengths == {65536, 2097152}

NoWrite == [addr |-> None, value |-> None, rom_bank |-> None]

MbcInit(kinds) ==
    /\ cpu = CpuNew
    /\ ic = IcNew
    /\ tm = TimerNew
    /\ gpu = GpuNew
    /\ mem = NoMem
    /\ dma = DmaNew
    /\ mbc \in kinds
    /\ serial = SerialNew
    /\ joypad = JoypadNew
    /\ mixer = MixerNew
    /\ wram = WramNew("dmg")
    /\ cgb = CgbNew
    /\ sound = SoundNew
    /\ fault = "none"
    /\ obs = [kind |-> "init"]
    /\ frm = NoFrame
    /\ n = 0

\* The clock latch of MBC3 (0x6000..0x7fff) is not written.
MbcWrite(addr, value, max) ==
    /\ fault = "none"
    /\ n < max
    /\ ~(mbc.kind = "Mbc3" /\ addr \in 24576 .. 32767)
    /\ \E r \in {mbc_on_write(mbc, addr, value)} :
           /\ mbc' = r.mbc
           /\ fault' = r.fault
           /\ obs' = [kind |-> "write", addr |-> addr, value |-> value, pre |-> mbc,
                      saved |-> r.saved]
    /\ n' = n + 1
    /\ UNCHANGED <<cpu, ic, tm, gpu, mem, dma, serial, joypad, mixer, frm, wram, cgb, sound>>

MbcRead(addr, max) ==
    /\ fault = "none"
    /\ n < max
    /\ \E r \in {mbc_on_read(mbc, addr)} :
           /\ fault' = r.fault
           /\ obs' = [kind |-> "read", addr |-> addr, value |-> r.value, pre |-> mbc,
                      last |-> IF obs.kind = "write"
                                 THEN [addr |-> obs.addr, value |-> obs.value,
                                       rom_bank |-> obs.pre.rom_bank]
                                 ELSE NoWrite]
    /\ n' = n + 1
    /\ UNCHANGED <<cpu, ic, tm, gpu, mem, dma, mbc, serial, joypad, mixer, frm, wram, cgb, sound>>

\* RAM enable at 0x0000 and 0x1000 (0, 1 and 0x0a), cartridge RAM at 0xa000
\* and 0xa200, the bank select at 0x4000, the boot ROM switch 0xff50
RamWrites ==
    ({0, 4096} \X {0, 1, 10}) \cup {<<40960, 85>>, <<41472, 102>>, <<16384, 1>>,
                                    <<65360, 1>>}

InitMbcRam ==
    MbcInit({Mbc1New(65536), Mbc2New(65536), Mbc3New(65536), Mbc5New(65536)})

NextMbcRam ==
    \/ \E w \in RamWrites : MbcWrite(w[1], w[2], MaxMbcOps)
    \/ \E addr \in {40960, 41472} : MbcRead(addr, MaxMbcOps)

SpecMbcRam == InitMbcRam /\ [][NextMbcRam]_vars

\* Every byte at 0x2000, the upper bank bits at 0x4000, the banking mode
\* at 0x6000; the last operation of a run is a read.
BankWrites ==
    ({8192} \X (0 .. 255)) \cup ({16384} \X (0 .. 3)) \cup {<<24576, 1>>}

InitMbcBank == MbcInit({Mbc1New(l) : l \in RomLengths} \cup {Mbc3New(l) : l \in RomLengths})

NextMbcBank ==
    \/ \E w \in BankWrites : MbcWrite(w[1], w[2], MaxBankOps - 1)
    \/ \E addr \in {16384, 32767} : MbcRead(addr, MaxBankOps)

SpecMbcBank == InitMbcBank /\ [][NextMbcBank]_vars

(***************************************************************************)
(* Claims about the cartridge.                                             *)
(***************************************************************************)
\* The RAM-enable latch of the controller
Latch(m) == IF m.kind = "Mbc3" THEN m.enable ELSE m.ram_enable

ExternalRam == 40960 .. 49151

\* C15 as stated: on MBC1, MBC2, MBC3 and MBC5, a write that changes the
\* RAM-enable latch from true to false calls save_ram with the cartridge
\* RAM.
C15_AsStated ==
    (obs.kind = "write" /\ Latch(obs.pre) /\ ~Latch(mbc)) => obs.saved = <<mbc.ram>>

\* The bank the claim gives for a write of n: the low 5 bits of n under the
\* upper bits selected before (MBC1) or the low 7 bits of n (MBC3), bank 0
\* as bank 1, and on MBC1 banks 0x20, 0x40, 0x60 as 0x21, 0x41, 0x61.
BankOf(kind, before, value) ==
    LET b == IF kind = "Mbc1" THEN (before - (before % 32)) + (value % 32)
             ELSE value % 128
        b1 == IF b = 0 THEN 1 ELSE b
    IN  IF kind = "Mbc1" /\ b1 \in {32, 64, 96} THEN b1 + 1 ELSE b1

\* A read of 0x4000 made right after a write to 0x2000
BankRead == obs.kind = "read" /\ obs.addr = 16384 /\ obs.last.addr = 8192

\* C16: on MBC1 and MBC3, for every byte n, the read of 0x4000 that follows
\* the write of n to 0x2000 returns rom[bank_of(n) * 0x4000], for an image
\* that holds that bank.
C16_BankSwitch ==
    (BankRead /\ BankOf(mbc.kind, obs.last.rom_bank, obs.last.value) * ROM_BANK_LENGTH
                   < mbc.rom_len) =>
        /\ fault = "none"
        /\ obs.value = RomByte(BankOf(mbc.kind, obs.last.rom_bank, obs.last.value)
                                 * ROM_BANK_LENGTH)

\* C16 witness: on an MBC1 with bank bits 5..6 = 1, 0x20 was written to
\* 0x2000 and the read of 0x4000 returned the first byte of bank 0x21.
C16_Witness ==
    /\ BankRead
    /\ mbc.kind = "Mbc1"
    /\ obs.last.rom_bank = 32
    /\ obs.last.value = 32
    /\ mbc.rom_len = 2097152
    /\ obs.value = RomByte(33 * ROM_BANK_LENGTH)

\* C17 as stated: while the RAM-enable latch is false, a read of external
\* RAM (0xa000..0xbfff) returns 0 and a write there leaves the cartridge
\* RAM unchanged.
C17_AsStated ==
    /\ (obs.kind = "read" /\ obs.addr \in ExternalRam /\ ~Latch(obs.pre)) =>
           fault = "none" /\ obs.value = 0
    /\ (obs.kind = "write" /\ obs.addr \in ExternalRam /\ ~Latch(obs.pre)) =>
           fault = "none" /\ mbc.ram = obs.pre.ram

(***************************************************************************)
(* The serial specification: the program writes SB and SC (at most         *)
(* MaxSerialWrites times) and the port is stepped 4 or 8 cycles at a time; *)
(* the host has a byte to receive or none.  frm.started tells that the     *)
(* last SC write started an internal-clock transfer, frm.t is the number   *)
(* of cycles stepped since that write (since construction when none was    *)
(* started), and the run follows a transfer for SerialHorizon cycles.      *)
(***************************************************************************)
\* register writes per run of the serial specification
MaxSerialWrites == 3

\* cycles a transfer is followed after the write that started it
SerialHorizon == 4112

\* SB, and SC with bit 7 (start) and bit 0 (internal clock) set or clear
SerialWrites == {<<ADDR_SB, 60>>, <<ADDR_SC, 129>>, <<ADDR_SC, 128>>, <<ADDR_SC, 1>>}

\* What the host's recv_byte returns
HostBytes == {None, 66}

InitSerial ==
    /\ cpu = CpuNew
    /\ ic = IcNew
    /\ tm = TimerNew
    /\ gpu = GpuNew
    /\ mem = NoMem
    /\ obs = [kind |-> "init"]
    /\ frm = [t |-> 0, started |-> FALSE]
    /\ n = 0
    /\ DevicesNew

SerialWrite(addr, value, rx) ==
    /\ fault = "none"
    /\ n < MaxSerialWrites
    /\ \E r \in {serial_on_write(serial, addr, value, rx)} :
           /\ serial' = r.serial
           /\ fault' = r.fault
           /\ obs' = [kind |-> "write", addr |-> addr, sent |-> r.sent]
    /\ frm' = IF addr = ADDR_SC
                THEN [t |-> 0, started |-> (Bit(value, 7) = 1 /\ Bit(value, 0) = 1)]
                ELSE frm
    /\ n' = n + 1
    /\ UNCHANGED <<cpu, ic, tm, gpu, mem, dma, mbc, joypad, mixer, wram, cgb, sound>>

\* One call of Serial::step.  obs keeps the port and the account before
\* the call and the interrupts it requested.
SerialStep(time, rx) ==
    /\ frm.t + time <= (IF frm.started THEN SerialHorizon ELSE MaxIdleCycles)
    /\ \E r \in {serial_step(serial, time, rx)} :
           /\ serial' = r.serial
           /\ ic' = [ic EXCEPT !.request = @ \cup r.irq]
           /\ obs' = [kind |-> "step", time |-> time, pre |-> serial, acc |-> frm,
                      irq |-> r.irq, sent |-> r.sent]
    /\ frm' = [frm EXCEPT !.t = @ + time]
    /\ UNCHANGED <<cpu, tm, gpu, mem, dma, mbc, joypad, mixer, fault, n, wram, cgb, sound>>

NextSerial ==
    \/ \E w \in SerialWrites, rx \in HostBytes : SerialWrite(w[1], w[2], rx)
    \/ \E time \in {4, 8}, rx \in HostBytes : SerialStep(time, rx)

SpecSerial == InitSerial /\ [][NextSerial]_vars

(***************************************************************************)
(* Claims about the serial port.                                           *)
(***************************************************************************)
\* C18 as stated: after SC is written with bit 7 and bit 0 set, the
\* transfer completes when 8 * 512 = 4096 cycles have been stepped: SC
\* bit 7 is set before that point and clear from it on, and the step that
\* reaches it, and no other, requests the SERIAL interrupt.
C18_AsStated ==
    frm.started =>
        /\ Bit(serial.ctrl, 7) = 1 <=> frm.t < SERIAL_CLOCKS
        /\ obs.kind = "step" =>
               (SERIAL \in obs.irq <=>
                    (obs.acc.t < SERIAL_CLOCKS /\ frm.t >= SERIAL_CLOCKS))


(***************************************************************************)
(* The joypad specification: the program writes the select register and    *)
(* the joypad is polled, MaxJoypadOps operations in all, with up to         *)
(* MaxHeldKeys keys held at a poll.  frm.released is the set of lines of   *)
(* the selected row that read 1 at the previous poll (all four before the  *)
(* first).                                                                 *)
(***************************************************************************)
\* operations per run of the joypad specification
MaxJoypadOps == 4

Keys == {"Right", "Left", "Up", "Down", "A", "B", "Select", "Start"}

\* The select bit (4: directions, 5: buttons) and the line of each key
KeyRow(key) == IF key \in {"Right", "Left", "Up", "Down"} THEN 4 ELSE 5
KeyLine(key) ==
    CASE key \in {"Right", "A"} -> 0
      [] key \in {"Left", "B"} -> 1
      [] key \in {"Up", "Select"} -> 2
      [] key \in {"Down", "Start"} -> 3

\* The row read back: directions when bit 4 is clear, else buttons when
\* bit 5 is clear, else none.
SelectedRow(select) ==
    IF Bit(select, 4) = 0 THEN 4 ELSE IF Bit(select, 5) = 0 THEN 5 ELSE None

\* The lines of the selected row that read 1 (released) with keys held
ReleasedLines(select, keys) ==
    {i \in 0 .. 3 : ~ \E key \in keys : KeyRow(key) = SelectedRow(select)
                                          /\ KeyLine(key) = i}

\* Values written to 0xff00: each row, both, none, and one with low bits set
SelectWrites == {0, 16, 32, 48, 239}

\* keys held together at a poll
MaxHeldKeys == 3

\* What the host reports at a poll
HeldKeys == {keys \in SUBSET Keys : Cardinality(keys) <= MaxHeldKeys}

InitJoypad ==
    /\ cpu = CpuNew
    /\ ic = IcNew
    /\ tm = TimerNew
    /\ gpu = GpuNew
    /\ mem = NoMem
    /\ obs = [kind |-> "init"]
    /\ frm = [released |-> 0 .. 3]
    /\ n = 0
    /\ DevicesNew

JoypadWrite(value) ==
    /\ n < MaxJoypadOps
    /\ joypad' = joypad_on_write(joypad, ADDR_JOYP, value)
    /\ obs' = [kind |-> "write", value |-> value]
    /\ n' = n + 1
    /\ UNCHANGED <<cpu, ic, tm, gpu, mem, dma, mbc, serial, mixer, fault, frm, wram, cgb, sound>>

\* One call of Joypad::poll.  obs keeps the joypad and the account before
\* the call, the keys held and the interrupts requested.
JoypadPoll(keys) ==
    /\ n < MaxJoypadOps
    /\ \E r \in {joypad_poll(joypad, keys)} :
           /\ joypad' = r.joypad
           /\ ic' = [ic EXCEPT !.request = @ \cup r.irq]
           /\ obs' = [kind |-> "poll", pre |-> joypad, acc |-> frm, keys |-> keys,
                      irq |-> r.irq]
    /\ frm' = [released |-> ReleasedLines(joypad.select, keys)]
    /\ n' = n + 1
    /\ UNCHANGED <<cpu, tm, gpu, mem, dma, mbc, serial, mixer, fault, wram, cgb, sound>>

NextJoypad ==
    \/ \E value \in SelectWrites : JoypadWrite(value)
    \/ \E keys \in HeldKeys : JoypadPoll(keys)

SpecJoypad == InitJoypad /\ [][NextJoypad]_vars

(***************************************************************************)
(* Claims about the joypad.                                                *)
(***************************************************************************)
\* C19: a poll requests the JOYPAD interrupt exactly when some line of the
\* selected row read 1 (released) at the previous poll and reads 0
\* (pressed) now; lines that stay 0, go from 0 to 1 or do not change
\* request none.
C19_FallingLine ==
    obs.kind = "poll" =>
        (JOYPAD \in obs.irq <=> obs.acc.released \ frm.released # {})

\* A poll where one line fell while another rose, and one where a key is
\* held over two polls of the same row without a request.
C19_Witness ==
    /\ obs.kind = "poll"
    /\ JOYPAD \in obs.irq
    /\ frm.released \ obs.acc.released # {}
    /\ obs.pre.select = 32

C19_WitnessHeld ==
    /\ obs.kind = "poll"
    /\ obs.irq = {}
    /\ obs.acc.released # 0 .. 3
    /\ frm.released = obs.acc.released
    /\ obs.keys # {}


(***************************************************************************)
(* The mixer specification, for the mixer of sound.rs and the mixer of     *)
(* apu/mixer.rs (frm.rev): the program writes NR50, NR51 and NR52,         *)
(* restarts the four channels and the host asks for samples at its         *)
(* sampling rate (frm.rate), MaxMixerOps operations in all.                *)
(***************************************************************************)
\* operations per run of the mixer specification
MaxMixerOps == 7

\* NR50 (volumes 7/7, 0/7, 3/5), NR51 (all, SO1 only, mixed), NR52 (on, off)
MixerWrites ==
    ({ADDR_NR50} \X {119, 7, 53}) \cup ({ADDR_NR51} \X {255, 15, 90})
    \cup ({ADDR_NR52} \X {128, 0})

\* The sampling rate of the host: with 64 an envelope of one step moves at
\* every sample
MixerRates == {64}

\* The registers a tone channel is restarted with: volume 15 rising, and
\* volume 2 falling at every sample with the duty 50%
Tones == {[ToneNew EXCEPT !.env_init = 15, !.env_inc = TRUE, !.env_count = 1],
          [ToneNew EXCEPT !.env_init = 2, !.env_count = 1, !.wave_duty = 2]}

\* The registers the noise channel is restarted with: volume 15 rising on
\* the long shift register, volume 2 falling on the short one
Noises == {[NoiseNew EXCEPT !.env_init = 15, !.env_inc = TRUE, !.env_count = 1],
           [NoiseNew EXCEPT !.env_init = 2, !.env_count = 1, !.step = TRUE]}

\* Wave channels at restart: on with full and halved output, and off
Waves == {[WaveNew EXCEPT !.enable = TRUE, !.amp_shift = 1,
                          !.wavebuf = [i \in 0 .. 15 |-> 255]],
          [WaveNew EXCEPT !.enable = TRUE, !.amp_shift = 2,
                          !.wavebuf = [i \in 0 .. 15 |-> 248]],
          [WaveNew EXCEPT !.amp_shift = 1, !.wavebuf = [i \in 0 .. 15 |-> 255]]}

\* The streams of tone 1 (with the sweep), of tone 2, of the wave channel and
\* of the noise channel made from these registers
Tone1Streams == {ToneStreamNew(t, TRUE) : t \in Tones}

Tone2Streams == {ToneStreamNew(t, FALSE) : t \in Tones}

WaveStreams == {WaveStreamNew(w) : w \in Waves}

NoiseStreams == {NoiseStreamNew(nz) : nz \in Noises}

\* The streams channel id may be restarted with
Restarts(id) ==
    CASE id = 0 -> Tone1Streams
      [] id = 1 -> Tone2Streams
      [] id = 2 -> WaveStreams
      [] id = 3 -> NoiseStreams

InitMixer ==
    /\ cpu = CpuNew
    /\ ic = IcNew
    /\ tm = TimerNew
    /\ gpu = GpuNew
    /\ mem = NoMem
    /\ obs = [kind |-> "init"]
    /\ \E rev \in {"sound", "apu"}, rate \in MixerRates :
           /\ frm = [rev |-> rev, rate |-> rate]
           /\ mixer = IF rev = "apu" THEN ApuMixerNew ELSE MixerNew
    /\ n = 0
    /\ dma = DmaNew
    /\ mbc = MbcNoneNew
    /\ serial = SerialNew
    /\ joypad = JoypadNew
    /\ wram = WramNew("dmg")
    /\ cgb = CgbNew
    /\ sound = SoundNew
    /\ fault = "none"

\* Mixer::on_write of sound.rs
MixerWrite(addr, value) ==
    /\ fault = "none"
    /\ frm.rev = "sound"
    /\ n < MaxMixerOps
    /\ \E r \in {mixer_on_write(mixer, addr, value)} :
           /\ mixer' = r.mixer
           /\ fault' = r.fault
    /\ obs' = [kind |-> "write"]
    /\ n' = n + 1
    /\ UNCHANGED <<cpu, ic, tm, gpu, mem, dma, mbc, serial, joypad, frm, wram, cgb, sound>>

\* Mixer::write_ctrl, write_so_mask and enable of apu/mixer.rs
ApuWrite(addr, value) ==
    /\ fault = "none"
    /\ frm.rev = "apu"
    /\ n < MaxMixerOps
    /\ mixer' = CASE addr = ADDR_NR50 -> apu_write_ctrl(mixer, value)
                  [] addr = ADDR_NR51 -> apu_write_so_mask(mixer, value)
                  [] addr = ADDR_NR52 -> apu_enable(mixer, Bit(value, 7) # 0)
    /\ obs' = [kind |-> "write"]
    /\ n' = n + 1
    /\ UNCHANGED <<cpu, ic, tm, gpu, mem, dma, mbc, serial, joypad, fault, frm, wram, cgb,
                   sound>>

\* Mixer::clear of apu/mixer.rs
ApuClear ==
    /\ fault = "none"
    /\ frm.rev = "apu"
    /\ n < MaxMixerOps
    /\ mixer' = apu_clear(mixer)
    /\ obs' = [kind |-> "clear"]
    /\ n' = n + 1
    /\ UNCHANGED <<cpu, ic, tm, gpu, mem, dma, mbc, serial, joypad, fault, frm, wram, cgb,
                   sound>>

\* Mixer::restart_tone1, restart_tone2, restart_wave and restart_noise
\* (sync_tone, sync_wave and sync_noise in apu/mixer.rs)
MixerRestart(id, s) ==
    /\ fault = "none"
    /\ n < MaxMixerOps
    /\ mixer' = mixer_restart(mixer, id, s)
    /\ obs' = [kind |-> "restart"]
    /\ n' = n + 1
    /\ UNCHANGED <<cpu, ic, tm, gpu, mem, dma, mbc, serial, joypad, fault, frm, wram, cgb, sound>>

\* What a call of next leaves: obs keeps the sum, the sample when the call
\* returned, and whether the stream was enabled (apu/mixer.rs)
MixerSampled(r) ==
    /\ mixer' = r.mixer
    /\ fault' = r.fault
    /\ obs' = [kind |-> "next", vol |-> r.vol,
               sample |-> IF r.fault = "none" THEN r.vol ELSE None]
    /\ n' = n + 1
    /\ UNCHANGED <<cpu, ic, tm, gpu, mem, dma, mbc, serial, joypad, frm, wram, cgb, sound>>

\* One call of MixerStream::next of sound.rs
MixerNext ==
    /\ fault = "none"
    /\ frm.rev = "sound"
    /\ n < MaxMixerOps
    /\ MixerSampled(mixer_stream_next(mixer, frm.rate))

\* One call of MixerStream::next of apu/mixer.rs
ApuNext ==
    /\ fault = "none"
    /\ frm.rev = "apu"
    /\ n < MaxMixerOps
    /\ MixerSampled(apu_stream_next(mixer, frm.rate))

NextMixer ==
    \/ \E w \in MixerWrites : MixerWrite(w[1], w[2])
    \/ \E w \in MixerWrites : ApuWrite(w[1], w[2])
    \/ ApuClear
    \/ \E id \in 0 .. 3 : \E s \in Restarts(id) : MixerRestart(id, s)
    \/ MixerNext
    \/ ApuNext

SpecMixer == InitMixer /\ [][NextMixer]_vars

(***************************************************************************)
(* Claims about the mixer.                                                 *)
(***************************************************************************)
\* C20: the assertion in next() never fails, the sum of amplitude times
\* volume over the four channels (noise halved) is at most 840, and every
\* sample returned is at most the declared maximum.
C20_SampleBound ==
    /\ fault = "none"
    /\ obs.kind = "next" =>
           /\ obs.vol <= MIXER_ASSERT
           /\ obs.sample # None
           /\ obs.sample <= MIXER_MAX

\* All four channels at amplitude 15 with both outputs at volume 7: the
\* largest sum, 3 * 210 + 105.
C20_Witness ==
    /\ obs.kind = "next"
    /\ obs.sample = 735
    /\ \A id \in 0 .. 3 : mixer.volume[id] = 14


(***************************************************************************)
(* Work RAM (wram.rs).                                                     *)
(***************************************************************************)
\* CgbExt::select_bank masking the index with 3 instead of 7.
wram_select_bank_two_bits(w, b) ==
    IF w.mode = "dmg" THEN w
    ELSE [w EXCEPT !.bank_index = IF b % 4 = 0 THEN 1 ELSE b % 4]

\* CgbExt::select_bank: nothing for (), b & 7 with 0 taken as 1 for
\* WramCgbExtension
wram_select_bank(w, b) ==
    IF w.mode = "dmg" THEN w
    ELSE [w EXCEPT !.bank_index = IF b % 8 = 0 THEN 1 ELSE b % 8]

\* CgbExt::get8_post0xd000: bank 1 of Wram, or bank bank_index - 2 of the
\* extension when bank_index >= 2
get8_post0xd000(w, addr) ==
    IF w.mode = "cgb" /\ w.bank_index >= 2
      THEN bank_get(w.ext_banks, w.bank_index - 2, addr)
    ELSE bank_get(w.banks, 1, addr)

\* CgbExt::set8_post0xd000
set8_post0xd000(w, addr, value) ==
    IF w.mode = "cgb" /\ w.bank_index >= 2
      THEN [w EXCEPT !.ext_banks = bank_set(@, w.bank_index - 2, addr, value)]
    ELSE [w EXCEPT !.banks = bank_set(@, 1, addr, value)]

\* The addresses Wram serves; any other is unreachable!() and panics
wram_reachable(addr) == addr \in 49152 .. 65023

\* Wram::get8 (addr in 0xc000..0xfdff)
wram_get8(w, addr) ==
    IF addr \in 49152 .. 53247 THEN bank_get(w.banks, 0, addr - 49152)
    ELSE IF addr \in 53248 .. 57343 THEN get8_post0xd000(w, addr - 53248)
    ELSE IF addr - 57344 + 49152 \in 49152 .. 53247
      THEN bank_get(w.banks, 0, (addr - 57344 + 49152) - 49152)
    ELSE get8_post0xd000(w, (addr - 57344 + 49152) - 53248)

\* Wram::set8 (addr in 0xc000..0xfdff)
wram_set8(w, addr, v) ==
    IF addr \in 49152 .. 53247 THEN [w EXCEPT !.banks = bank_set(@, 0, addr - 49152, v)]
    ELSE IF addr \in 53248 .. 57343 THEN set8_post0xd000(w, addr - 53248, v)
    ELSE IF addr - 57344 + 49152 \in 49152 .. 53247
      THEN [w EXCEPT !.banks = bank_set(@, 0, (addr - 57344 + 49152) - 49152, v)]
    ELSE set8_post0xd000(w, (addr - 57344 + 49152) - 53248, v)

(***************************************************************************)
(* The work RAM specification: a DMG or CGB work RAM takes MaxWramOps      *)
(* operations, writes and bank selections.  obs keeps the work RAM before  *)
(* the operation.                                                          *)
(***************************************************************************)
\* operations per run of the work RAM specification
MaxWramOps == 4

\* The ends of bank 0, of the banked range, of the part of it that is
\* echoed and of the echo range, and the address after it
WramAddrs == {49152, 53247, 53248, 56831, 57343, 57344, 61439, 61440, 65023, 65024}

WramValues == {90, 165}

\* Values for select_bank: each kind of index, 0, and values above 7
BankSelects == {0, 1, 2, 3, 7, 8, 250}

InitWram ==
    /\ cpu = CpuNew
    /\ ic = IcNew
    /\ tm = TimerNew
    /\ gpu = GpuNew
    /\ mem = NoMem
    /\ obs = [kind |-> "init"]
    /\ frm = NoFrame
    /\ n = 0
    /\ dma = DmaNew
    /\ mbc = MbcNoneNew
    /\ serial = SerialNew
    /\ joypad = JoypadNew
    /\ mixer = MixerNew
    /\ fault = "none"
    /\ wram \in {WramNew("dmg"), WramNew("cgb")}
    /\ cgb = CgbNew
    /\ sound = SoundNew

WramSet8(addr, v) ==
    /\ fault = "none"
    /\ n < MaxWramOps
    /\ IF wram_reachable(addr)
         THEN wram' = wram_set8(wram, addr, v) /\ fault' = fault
         ELSE wram' = wram /\ fault' = "panic"
    /\ obs' = [kind |-> "set8", addr |-> addr, value |-> v, pre |-> wram]
    /\ n' = n + 1
    /\ UNCHANGED <<cpu, ic, tm, gpu, mem, dma, mbc, serial, joypad, mixer, frm, cgb, sound>>

WramSelectBank(b) ==
    /\ fault = "none"
    /\ n < MaxWramOps
    /\ wram' = wram_select_bank(wram, b)
    /\ obs' = [kind |-> "select_bank", bank |-> b, pre |-> wram]
    /\ n' = n + 1
    /\ UNCHANGED <<cpu, ic, tm, gpu, mem, dma, mbc, serial, joypad, mixer, fault, frm, cgb, sound>>

NextWram ==
    \/ \E addr \in WramAddrs, v \in WramValues : WramSet8(addr, v)
    \/ \E b \in BankSelects : WramSelectBank(b)

SpecWram == InitWram /\ [][NextWram]_vars

(***************************************************************************)
(* Claims about the work RAM.                                              *)
(***************************************************************************)
\* The echoed addresses among those written, and the address each mirrors
EchoAddrs == {a \in WramAddrs : a \in 57344 .. 65023}
Mirror(a) == IF a \in 57344 .. 65023 THEN a - 8192 ELSE a + 8192

\* What C21 says, of the work RAM device Wram (wram.rs): under every bank
\* selection, reading an address a of 0xe000..0xfdff returns the byte read
\* at a - 0x2000, and a write to either of the two addresses is read back
\* at both.  It holds of Wram in every state of SpecWram.
WramEchoMirror ==
    /\ \A a \in EchoAddrs, b \in BankSelects :
           wram_get8(wram_select_bank(wram, b), a)
               = wram_get8(wram_select_bank(wram, b), a - 8192)
    /\ (obs.kind = "set8" /\ fault = "none" /\ wram_reachable(Mirror(obs.addr))) =>
           /\ wram_get8(wram, obs.addr) = obs.value
           /\ wram_get8(wram, Mirror(obs.addr)) = obs.value

\* A write into the echo of the banked range with extension bank 3
\* selected, after another value was written there under bank 1.
WramEchoWitness ==
    /\ obs.kind = "set8"
    /\ obs.addr = 61440
    /\ wram.mode = "cgb"
    /\ wram.bank_index = 3
    /\ wram_get8(wram, 53248) = obs.value
    /\ wram_get8(wram_select_bank(wram, 1), 53248) \notin {0, obs.value}

(***************************************************************************)
(* The echo specification: the bus of mmu.rs and its Cgb device.  The      *)
(* program writes bytes at the ends of the work RAM and of its echo with   *)
(* Mmu::set8, selects a work RAM bank by writing 0xff70 and requests a     *)
(* speed switch by writing 0xff4d, which the machine then makes,           *)
(* MaxEchoOps operations in all; the claims read the bus with Mmu::get8.   *)
(***************************************************************************)
\* operations per run of the echo specification
MaxEchoOps == 4

\* The ends of bank 0 and of the part of the banked range that is echoed,
\* and the ends of their echoes
EchoBusAddrs == {49152, 53247, 53248, 56831, 57344, 61439, 61440, 65023}

\* The values written to 0xff70
EchoSelects == {1, 2}

InitEcho ==
    /\ cpu = CpuNew
    /\ ic = IcNew
    /\ tm = TimerNew
    /\ gpu = GpuNew
    /\ mem = NoMem
    /\ obs = [kind |-> "init"]
    /\ frm = NoFrame
    /\ n = 0
    /\ DevicesNew

\* Mmu::set8(addr, v)
BusSet8(addr, v) ==
    /\ fault = "none"
    /\ n < MaxEchoOps
    /\ MachineDone(sys_set8(Machine, addr, v))
    /\ obs' = [kind |-> "set8", addr |-> addr, value |-> v]
    /\ frm' = frm
    /\ n' = n + 1

\* Mmu::set8(0xff70, b)
BusSelectBank(b) ==
    /\ fault = "none"
    /\ n < MaxEchoOps
    /\ MachineDone(sys_set8(Machine, 65392, b))
    /\ obs' = [kind |-> "select_bank", bank |-> b]
    /\ frm' = frm
    /\ n' = n + 1

\* Mmu::set8(0xff4d, v)
BusSetKey1(v) ==
    /\ fault = "none"
    /\ n < MaxEchoOps
    /\ MachineDone(sys_set8(Machine, 65357, v))
    /\ obs' = [kind |-> "key1", value |-> v]
    /\ frm' = frm
    /\ n' = n + 1

\* Cgb::try_switch_speed
TrySwitchSpeed ==
    /\ fault = "none"
    /\ n < MaxEchoOps
    /\ cgb' = try_switch_speed(cgb)
    /\ obs' = [kind |-> "switch", pre |-> cgb]
    /\ n' = n + 1
    /\ UNCHANGED <<cpu, ic, tm, gpu, mem, frm, dma, mbc, serial, joypad, mixer, wram, sound,
                   fault>>

NextEcho ==
    \/ \E addr \in EchoBusAddrs, v \in WramValues : BusSet8(addr, v)
    \/ \E b \in EchoSelects : BusSelectBank(b)
    \/ \E v \in {0, 1} : BusSetKey1(v)
    \/ TrySwitchSpeed

SpecEcho == InitEcho /\ [][NextEcho]_vars

\* C21 as stated: under every bank selection, Mmu::get8 of an address a of
\* 0xe000..0xfdff returns the byte it returns for a - 0x2000, and a byte
\* written to either of the two addresses with Mmu::set8 is read back at
\* both.
C21_AsStated ==
    /\ \A a \in EchoBusAddrs \cap (57344 .. 65023) :
           sys_get8(Machine, a) = sys_get8(Machine, a - 8192)
    /\ obs.kind = "set8" =>
           /\ sys_get8(Machine, obs.addr) = Value(obs.value)
           /\ sys_get8(Machine, Mirror(obs.addr)) = Value(obs.value)


\* The addresses written that lie in bank 0, and those that lie in the
\* banked range 0xd000..0xdfff or in its echo
Bank0Addrs == {a \in WramAddrs : a \in 49152 .. 53247}
BankedAddrs == {a \in WramAddrs : a \in 53248 .. 57343}
InBanked(a) == a \in 53248 .. 57343 \/ a \in 61440 .. 65023

\* What 0xd000..0xdfff holds when bank b is selected
BankView(w, b) == [a \in BankedAddrs |-> wram_get8(wram_select_bank(w, b), a)]

\* C22: in CGB mode the bank selected, 1 before any selection, is the only
\* one 0xd000..0xdfff reads and writes: a write there is read back, changes
\* no other bank and nothing in 0xc000..0xcfff, and a selection changes no
\* bank's contents and makes bank b current for b in 1..7.  In DMG mode a
\* selection changes nothing and every selection reads the same bank.
C22_BankFrame ==
    /\ (wram.mode = "cgb" /\ n = 0) => wram.bank_index = 1
    /\ (wram.mode = "cgb" /\ obs.kind = "set8" /\ fault = "none" /\ InBanked(obs.addr)) =>
           /\ wram_get8(wram, obs.addr) = obs.value
           /\ wram.bank_index = obs.pre.bank_index
           /\ \A b \in 1 .. 7 :
                  b # wram.bank_index => BankView(wram, b) = BankView(obs.pre, b)
           /\ \A a \in Bank0Addrs : wram_get8(wram, a) = wram_get8(obs.pre, a)
    /\ (wram.mode = "cgb" /\ obs.kind = "select_bank") =>
           /\ \A b \in 1 .. 7 : BankView(wram, b) = BankView(obs.pre, b)
           /\ \A a \in Bank0Addrs : wram_get8(wram, a) = wram_get8(obs.pre, a)
           /\ obs.bank \in 1 .. 7 => BankView(wram, wram.bank_index) = BankView(wram, obs.bank)
           /\ obs.bank \in 1 .. 7 => wram.bank_index = obs.bank
    /\ wram.mode = "dmg" =>
           /\ obs.kind = "select_bank" => wram = obs.pre
           /\ \A b \in BankSelects : BankView(wram, b) = BankView(wram, 1)

\* A write under bank 3 while bank 2 holds another value at that address
C22_Witness ==
    /\ wram.mode = "cgb"
    /\ obs.kind = "set8"
    /\ obs.addr = 53248
    /\ wram.bank_index = 3
    /\ wram_get8(wram_select_bank(wram, 2), 53248) \notin {0, obs.value}
    /\ wram_get8(wram_select_bank(wram, 1), 53248) = 0


(***************************************************************************)
(* The stack (cpu.rs): push and pop over the bus.                          *)
(***************************************************************************)
(***************************************************************************)
(* The stack specification: from a stack pointer of StackSps, in a debug   *)
(* or a release build (frm.build), the program pushes a word and pops it,  *)
(* MaxStackOps operations in all.  frm keeps the word pushed and SP before *)
(* the push.                                                               *)
(***************************************************************************)
\* operations per run of the stack specification
MaxStackOps == 4

\* SP as constructed (0), 1, in work RAM, in the echo, at the top of high
\* RAM and 0xffff.  A stack in the cartridge's addresses is left out.
StackSps == {0, 1, 49154, 53248, 57346, 65534, 65535}

StackWords == {0, 4660, 4865, 255, 65535}

InitStack ==
    /\ cpu \in {[CpuNew EXCEPT !.sp = s] : s \in StackSps}
    /\ ic = IcNew
    /\ tm = TimerNew
    /\ gpu = GpuNew
    /\ mem = NoMem
    /\ obs = [kind |-> "init"]
    /\ frm \in {[build |-> b, sp |-> 0, v |-> 0] : b \in {"debug", "release"}}
    /\ n = 0
    /\ DevicesNew

\* push(v).  From SP = 1 the word is written at 0xffff: the low byte goes
\* to IE, then 0xffff + 1 panics in a debug build and in a release build
\* wraps to 0x0000, where the cartridge takes the write of the high byte.
StackPush(v) ==
    /\ fault = "none"
    /\ n < MaxStackOps
    /\ obs.kind # "push"
    /\ MachineDone(push(Machine, v))
    /\ obs' = [kind |-> "push"]
    /\ frm' = [frm EXCEPT !.sp = cpu.sp, !.v = v]
    /\ n' = n + 1

\* pop() right after a push (the push from SP = 1 has ended the program, so
\* the word is never read at 0xffff).
StackPop ==
    /\ fault = "none"
    /\ n < MaxStackOps
    /\ obs.kind = "push"
    /\ \E r \in {pop(Machine)} :
           /\ MachineDone(r.m)
           /\ obs' = [kind |-> "pop", value |-> r.value]
    /\ n' = n + 1
    /\ frm' = frm

NextStack ==
    \/ \E v \in StackWords : StackPush(v)
    \/ StackPop

SpecStack == InitStack /\ [][NextStack]_vars

(***************************************************************************)
(* Claims about the stack.                                                 *)
(***************************************************************************)
\* C23 as stated: for every word v and every stack pointer, push(v)
\* followed by pop() returns v and leaves SP as it was before the push (and
\* neither panics).
C23_AsStated ==
    /\ fault = "none"
    /\ obs.kind = "pop" => (obs.value = frm.v /\ cpu.sp = frm.sp)


(***************************************************************************)
(* The registers and the flag register (cpu.rs).                           *)
(***************************************************************************)
\* Cpu::set_zf (i = 7), set_nf (6), set_hf (5), set_cf (4): the bit of F is
\* set with |= or cleared with &= !
set_flag(m, i, v) ==
    [m EXCEPT !.cpu.f = (@ - Bit(@, i) * Pow2(i)) + (IF v THEN Pow2(i) ELSE 0)]

\* Cpu::set_af storing the whole low byte in F.
set_af_whole_byte(m, v) == [m EXCEPT !.cpu.a = v \div 256, !.cpu.f = v % 256]

\* Cpu::set_af
set_af(m, v) == [m EXCEPT !.cpu.a = v \div 256, !.cpu.f = (v % 256) - (v % 16)]

\* Cpu::get_af
get_af(m) == m.cpu.a * 256 + m.cpu.f

\* Cpu::set_bc
set_bc(m, v) == [m EXCEPT !.cpu.b = v \div 256, !.cpu.c = v % 256]

\* Cpu::get_bc
get_bc(m) == m.cpu.b * 256 + m.cpu.c

\* Cpu::set_a, set_b, set_c, set_d, set_e, set_h, set_l
set_reg(m, r, v) == [m EXCEPT !.cpu[r] = v]

\* Cpu::set_de
set_de(m, v) == [m EXCEPT !.cpu.d = v \div 256, !.cpu.e = v % 256]

\* Cpu::set_hl
set_hl(m, v) == [m EXCEPT !.cpu.h = v \div 256, !.cpu.l = v % 256]

\* The instructions 0xc5 PUSH BC, 0xf5 PUSH AF and 0xf1 POP AF after their
\* opcode fetch, as the test op_00f1 uses them
op_00c5(m) == push(m, get_bc(m))
op_00f5(m) == push(m, get_af(m))
op_00f1(m) == set_af(pop(m).m, pop(m).value)

(***************************************************************************)
(* The flag specification: the program sets flags, loads registers,       *)
(* pushes AF and BC and pops AF, MaxFlagOps operations in all, with the    *)
(* stack in high RAM.  frm.depth is the number of words on the stack.      *)
(***************************************************************************)
\* operations per run of the flag specification
MaxFlagOps == 4

FlagWords == {4865, 65535, 240, 15}

\* The registers with a setter of their own (F is written by set_af and the
\* flag setters only)
Regs8 == {"a", "b", "c", "d", "e", "h", "l"}

InitFlags ==
    /\ cpu = [CpuNew EXCEPT !.sp = 65534]
    /\ ic = IcNew
    /\ tm = TimerNew
    /\ gpu = GpuNew
    /\ mem = NoMem
    /\ obs = [kind |-> "init"]
    /\ frm = [depth |-> 0]
    /\ n = 0
    /\ DevicesNew

FlagOp(kind, m, depth) ==
    /\ fault = "none"
    /\ n < MaxFlagOps
    /\ MachineDone(m)
    /\ obs' = [kind |-> kind, pre |-> cpu]
    /\ frm' = [depth |-> depth]
    /\ n' = n + 1

SetFlag(i, v) == FlagOp("set_flag", set_flag(Machine, i, v), frm.depth)

SetAf(v) == FlagOp("set_af", set_af(Machine, v), frm.depth)

SetBc(v) == FlagOp("set_bc", set_bc(Machine, v), frm.depth)

SetReg(r, v) == FlagOp("set_reg", set_reg(Machine, r, v), frm.depth)

SetDe(v) == FlagOp("set_de", set_de(Machine, v), frm.depth)

SetHl(v) == FlagOp("set_hl", set_hl(Machine, v), frm.depth)

PushBc == FlagOp("push_bc", op_00c5(Machine), frm.depth + 1)

PushAf == FlagOp("push_af", op_00f5(Machine), frm.depth + 1)

\* POP AF; obs keeps the word popped
PopAf ==
    /\ frm.depth > 0
    /\ fault = "none"
    /\ n < MaxFlagOps
    /\ MachineDone(op_00f1(Machine))
    /\ obs' = [kind |-> "pop_af", pre |-> cpu, value |-> pop(Machine).value]
    /\ frm' = [depth |-> frm.depth - 1]
    /\ n' = n + 1

NextFlags ==
    \/ \E i \in 4 .. 7, v \in BOOLEAN : SetFlag(i, v)
    \/ \E v \in FlagWords : SetAf(v)
    \/ \E v \in FlagWords : SetBc(v)
    \/ \E r \in Regs8 : SetReg(r, 19)
    \/ SetDe(4865)
    \/ SetHl(4865)
    \/ PushBc
    \/ PushAf
    \/ PopAf

SpecFlags == InitFlags /\ [][NextFlags]_vars

(***************************************************************************)
(* Claims about the flag register.                                         *)
(***************************************************************************)
\* C24: the low four bits of F are zero in every state, and POP AF loads
\* the word popped with its low four bits cleared.
C24_FlagNibble ==
    /\ cpu.f % 16 = 0
    /\ obs.kind = "pop_af" =>
           cpu.a * 256 + cpu.f = obs.value - (obs.value % 16)

\* BC = 0x1301 pushed and popped into AF gives AF = 0x1300
C24_Witness ==
    /\ obs.kind = "pop_af"
    /\ obs.value = 4865
    /\ cpu.b = 19 /\ cpu.c = 1
    /\ cpu.a = 19 /\ cpu.f = 0


(***************************************************************************)
(* The real-time clock of MBC3 (mbc.rs).                                   *)
(***************************************************************************)

MaxRtcOps == 6

\* what the host's clock advances by between two writes, <<seconds,
\* microseconds>>: half a second, a second, a minute, a day
RtcAdvances == {<<0, 500000>>, <<1, 0>>, <<60, 0>>, <<86400, 0>>}

\* register selects 0x08..0x0c at 0x4000, register values at 0xa000, the
\* latch sequence at 0x6000
RtcWrites ==
    ({16384} \X (8 .. 12)) \cup ({40960} \X {1, 59, 64, 255}) \cup ({24576} \X {0, 1, 2})

\* what the host's clock is set back by, in seconds
RtcSetBacks == {1, 60}

\* frm.prev is the value of the last write to the latch range 0x6000..0x7fff
\* (None before the first).
InitRtc ==
    /\ cpu = CpuNew
    /\ ic = IcNew
    /\ tm = TimerNew
    /\ gpu = GpuNew
    /\ mem = NoMem
    /\ dma = DmaNew
    /\ mbc = [Mbc3New(65536) EXCEPT !.use_boot_rom = FALSE]
    /\ serial = SerialNew
    /\ joypad = JoypadNew
    /\ mixer = MixerNew
    /\ wram = WramNew("dmg")
    /\ cgb = CgbNew
    /\ sound = SoundNew
    /\ fault = "none"
    /\ obs = [kind |-> "init"]
    /\ frm = [prev |-> None]
    /\ n = 0

\* The program writes to the cartridge.  An overflow in the latch ends a
\* debug build with a panic and wraps in a release build.  obs keeps the
\* write, the controller before it, whether it latched, the value of the
\* write to the latch range before it and the build.
RtcWrite(addr, value) ==
    /\ fault = "none"
    /\ n < MaxRtcOps
    /\ \E r \in {mbc_on_write(mbc, addr, value)} :
       \E build \in IF r.fault = "overflow" THEN {"debug", "release"} ELSE {"any"} :
           /\ mbc' = IF build = "debug" THEN mbc ELSE r.mbc
           /\ fault' = IF r.fault = "overflow"
                         THEN (IF build = "debug" THEN "panic" ELSE "none")
                         ELSE r.fault
           /\ obs' = [kind |-> "write", addr |-> addr, value |-> value, pre |-> mbc,
                      latched |-> addr = 24576 /\ value = 1 /\ mbc.prelatch,
                      prev |-> frm.prev, build |-> build]
    /\ frm' = IF addr \in 24576 .. 32767 THEN [prev |-> value] ELSE frm
    /\ n' = n + 1
    /\ UNCHANGED <<cpu, ic, tm, gpu, mem, dma, serial, joypad, mixer, wram, cgb, sound>>

\* The host's clock is set back (an adjustment of the system time).
RtcSetBack(secs) ==
    /\ fault = "none"
    /\ n < MaxRtcOps
    /\ mbc.hw_clock.secs >= secs
    /\ mbc' = [mbc EXCEPT !.hw_clock.secs = @ - secs]
    /\ obs' = [kind |-> "back"]
    /\ n' = n + 1
    /\ UNCHANGED <<cpu, ic, tm, gpu, mem, dma, serial, joypad, mixer, fault, frm, wram, cgb, sound>>

\* Time passes on the host.
RtcAdvance(secs, micros) ==
    /\ fault = "none"
    /\ n < MaxRtcOps
    /\ mbc' = [mbc EXCEPT !.hw_clock =
                   [secs |-> @.secs + secs + (@.micros + micros) \div 1000000,
                    micros |-> (@.micros + micros) % 1000000]]
    /\ obs' = [kind |-> "advance"]
    /\ n' = n + 1
    /\ UNCHANGED <<cpu, ic, tm, gpu, mem, dma, serial, joypad, mixer, fault, frm, wram, cgb, sound>>

NextRtc ==
    \/ \E w \in RtcWrites : RtcWrite(w[1], w[2])
    \/ \E d \in RtcAdvances : RtcAdvance(d[1], d[2])
    \/ \E secs \in RtcSetBacks : RtcSetBack(secs)

SpecRtc == InitRtc /\ [][NextRtc]_vars

\* The time the clock registers of m hold, in seconds, with the nine-bit
\* day counter (day-low plus bit 0 of day-high)
RtcTime(m) ==
    (((m.rtc[12] % 2) * 256 + m.rtc[11]) * 24 + m.rtc[10]) * 3600
        + m.rtc[9] * 60 + m.rtc[8]

\* 512 days, in seconds
RtcWrap == 512 * 86400

\* Host seconds between the previous latch (or register write) and the
\* latch of m; none while the halt bit (bit 6 of day-high) is set
RtcElapsed(m) == IF Bit(m.rtc[12], 6) = 1 THEN 0 ELSE m.hw_clock.secs - m.epoch

\* C25 as stated: after a latch, seconds < 60, minutes < 60, hours < 24, the
\* registers with the nine-bit day counter hold the time held before the
\* latch, its day count included, plus the elapsed seconds, and the carry
\* bit (bit 7 of day-high) is set when the day counter overflowed.
C25_AsStated ==
    (obs.kind = "write" /\ obs.latched /\ fault = "none") =>
        LET total == RtcTime(obs.pre) + RtcElapsed(obs.pre)
        IN  /\ mbc.rtc[8] < 60
            /\ mbc.rtc[9] < 60
            /\ mbc.rtc[10] < 24
            /\ RtcTime(mbc) = total % RtcWrap
            /\ total >= RtcWrap => Bit(mbc.rtc[12], 7) = 1


(***************************************************************************)
(* The sound specification: the program writes and reads the sound         *)
(* registers and the wave RAM and the host asks for samples, MaxSoundOps   *)
(* operations in all.  frm keeps the host's sampling rate, the channels    *)
(* whose length counter has stopped them since their last restart          *)
(* (expired) and the channels not restarted since NR52 bit 7 was last      *)
(* written 0 (reset).                                                      *)
(***************************************************************************)
\* operations per run of the sound specification
MaxSoundOps == 5

\* sampling rates of the host: with 8 a length of 31/64 ends after one
\* sample, with 512 a wave length of 255/256 after two
SoundRates == {8, 512}

\* NR11 (length 31), NR12 (volume 15, no envelope steps), NR14 (restart
\* with and without use-length), NR24 (restart), NR30 (wave on), NR31
\* (length 255), NR32 (full output), NR34 (restart with use-length), wave
\* RAM at both ends, NR42, NR44, NR50 (7/7), NR51 (all), NR52 (on, off)
SoundWrites ==
    {<<65297, 31>>, <<65298, 240>>, <<65300, 192>>, <<65300, 128>>, <<65305, 128>>,
     <<65306, 128>>, <<65307, 255>>, <<65308, 32>>, <<65310, 192>>,
     <<65328, 90>>, <<65343, 165>>, <<65313, 240>>, <<65315, 128>>,
     <<65316, 119>>, <<65317, 255>>, <<65318, 128>>, <<65318, 0>>}

\* NR52, NR51, NR33 and the wave RAM at both ends
SoundReads == {65318, 65317, 65309, 65328, 65343}

\* The channel a write restarts (0 tone 1, 1 tone 2, 2 wave, 3 noise)
Restarted(id, addr, value) ==
    CASE id = 0 -> addr \in 65296 .. 65300 /\ tone_on_write(ToneNew, 65296, addr, value).restart
      [] id = 1 -> addr \in 65301 .. 65305 /\ tone_on_write(ToneNew, 65301, addr, value).restart
      [] id = 2 -> addr \in 65306 .. 65310 /\ wave_on_write(WaveNew, addr, value).restart
      [] id = 3 -> addr \in 65312 .. 65315 /\ noise_on_write(NoiseNew, addr, value).restart

InitSound ==
    /\ cpu = CpuNew
    /\ ic = IcNew
    /\ tm = TimerNew
    /\ gpu = GpuNew
    /\ mem = NoMem
    /\ obs = [kind |-> "init"]
    /\ \E rate \in SoundRates :
           frm = [rate |-> rate, expired |-> [id \in 0 .. 3 |-> FALSE],
                  reset |-> [id \in 0 .. 3 |-> FALSE]]
    /\ n = 0
    /\ DevicesNew

\* Mmu::set8 on a sound register or the wave RAM
SoundWrite(addr, value) ==
    /\ fault = "none"
    /\ n < MaxSoundOps
    /\ \E r \in {sound_on_write(sound, mixer, addr, value)} :
           /\ sound' = r.sound
           /\ mixer' = r.mixer
           /\ fault' = r.fault
    /\ obs' = [kind |-> "write", addr |-> addr, value |-> value]
    /\ frm' = [frm EXCEPT
                 !.expired = [id \in 0 .. 3 |-> @[id] /\ ~ Restarted(id, addr, value)],
                 !.reset = [id \in 0 .. 3 |->
                               \/ addr = ADDR_NR52 /\ Bit(value, 7) = 0
                               \/ @[id] /\ ~ Restarted(id, addr, value)]]
    /\ n' = n + 1
    /\ UNCHANGED <<cpu, ic, tm, gpu, mem, dma, mbc, serial, joypad, wram, cgb>>

\* Mmu::get8 on a sound register or the wave RAM.  obs keeps the value
\* read and the write that came right before.
SoundRead(addr) ==
    /\ fault = "none"
    /\ n < MaxSoundOps
    /\ \E r \in {sound_on_read(sound, mixer, addr)} :
           /\ fault' = r.fault
           /\ obs' = [kind |-> "read", addr |-> addr, value |-> r.value,
                      last |-> IF obs.kind = "write"
                                 THEN [addr |-> obs.addr, value |-> obs.value]
                                 ELSE [addr |-> None, value |-> None]]
    /\ n' = n + 1
    /\ UNCHANGED <<cpu, ic, tm, gpu, mem, dma, mbc, serial, joypad, mixer, frm, wram, cgb, sound>>

\* One call of MixerStream::next.  obs keeps the four channels' amplitudes.
SoundNext ==
    /\ fault = "none"
    /\ n < MaxSoundOps
    /\ \E r \in {mixer_stream_next(mixer, frm.rate)} :
           /\ mixer' = r.mixer
           /\ fault' = r.fault
           /\ obs' = [kind |-> "next", vol |-> r.vol,
                      amps |-> [id \in 0 .. 3 |->
                                   unit_next(mixer, id, frm.rate).amp]]
    /\ frm' = [frm EXCEPT !.expired = [id \in 0 .. 3 |->
                  \/ @[id]
                  \/ /\ unit_on(mixer, id)
                     /\ stream_stopped(mixer.stream[id], frm.rate)]]
    /\ n' = n + 1
    /\ UNCHANGED <<cpu, ic, tm, gpu, mem, dma, mbc, serial, joypad, wram, cgb, sound>>

NextSound ==
    \/ \E w \in SoundWrites : SoundWrite(w[1], w[2])
    \/ \E addr \in SoundReads : SoundRead(addr)
    \/ SoundNext

SpecSound == InitSound /\ [][NextSound]_vars

(***************************************************************************)
(* Claims about the sound registers.                                       *)
(***************************************************************************)
WaveRam == 65328 .. 65343

\* C26 as stated: a read of wave RAM at 0xff30 + i right after a write of v
\* to the same address returns v.
C26_AsStated ==
    (obs.kind = "read" /\ obs.addr \in WaveRam /\ obs.last.addr = obs.addr) =>
        /\ fault = "none"
        /\ obs.value = obs.last.value

\* The NR52 status bit of channel id in the value v read from NR52
StatusBit(v, id) == Bit(v, 3 - id)

\* C27 as stated: a channel whose length counter has stopped it is off until
\* it is restarted: Unit::on is false, its NR52 status bit reads 0 and its
\* samples are 0.
C27_AsStated ==
    \A id \in 0 .. 3 :
        frm.expired[id] =>
            /\ ~ unit_on(mixer, id)
            /\ (obs.kind = "read" /\ obs.addr = ADDR_NR52 /\ fault = "none") =>
                   StatusBit(obs.value, id) = 0
            /\ obs.kind = "next" => obs.amps[id] = 0

\* C28 as stated: after NR52 is written with bit 7 clear, every channel is
\* off (Unit::on false, sample 0) until it is restarted.
C28_AsStated ==
    \A id \in 0 .. 3 :
        frm.reset[id] =>
            /\ ~ unit_on(mixer, id)
            /\ obs.kind = "next" => obs.amps[id] = 0


(***************************************************************************)
(* The rendering specification: with the PPU on some visible line, the     *)
(* program writes VRAM, the OAM, LCDC, SCX, WX and WY and the PPU draws    *)
(* the line, MaxRenderOps operations in all.  The first row of tile 1 and  *)
(* the object 0 were written before.                                       *)
(***************************************************************************)
\* operations per run of the rendering specification
MaxRenderOps == 5

\* The lines drawn: the first two, the first of the second tile row, the last
RenderLines == {0, 1, 8, 143}

\* The first row of tile 1 (0x8010, 0x8011): the low bit plane set for all
\* eight pixels, the high one for the four on the right, which gives the
\* colour indices 1 1 1 1 3 3 3 3
TileBytes == (16 :> 255) @@ (17 :> 15)

\* The object 0 (0xfe00 .. 0xfe03): y = 16 and x = 8, the top left corner of
\* the screen, tile 1, no attribute
Object0 == (0 :> 16) @@ (1 :> 8) @@ (2 :> 1) @@ (3 :> 0)

\* Tile 1 in column 1 of the window's map (0x9c01) and in column 0 of the
\* background's (0x9800)
VramWrites == {<<39937, 1>>, <<38912, 1>>}

\* The bytes written to the object 0: y = 9 (the object's last row on line
\* 0, the first row of its second tile on line 1), x = 4 and x = 164 (half
\* of the object left and right of the screen), the attributes x-flip,
\* y-flip, and x-flip with low priority
OamWrites == {<<65024, 9>>, <<65025, 4>>, <<65025, 164>>, <<65027, 32>>, <<65027, 64>>,
              <<65027, 160>>}

\* LCDC with the window on its own map and without, with the objects of 8
\* rows over the background (0x93) and of 16 rows without it (0x86), SCX,
\* WX (the window at x = 0 and at x = 8) and WY
RenderWrites ==
    ({"ctrl"} \X {241, 209, 147, 134}) \cup ({"scx"} \X {3}) \cup ({"wx"} \X {7, 15})
    \cup ({"wy"} \X {1})

InitRender ==
    /\ cpu = CpuNew
    /\ ic = IcNew
    /\ tm = TimerNew
    /\ \E ly \in RenderLines, g \in Gpus :
           gpu = [write_ctrl(g, 145) EXCEPT !.ly = ly, !.mode = "Drawing",
                                            !.vram = TileBytes, !.oam = Object0]
    /\ mem = NoMem
    /\ obs = [kind |-> "init"]
    /\ frm = NoFrame
    /\ n = 0
    /\ DevicesNew

\* Gpu::write_vram
RenderVram(addr, v) ==
    /\ fault = "none"
    /\ n < MaxRenderOps
    /\ gpu' = write_vram(gpu, addr, v).gpu
    /\ obs' = [kind |-> "vram"]
    /\ n' = n + 1
    /\ UNCHANGED <<cpu, ic, tm, mem, devs, frm>>

\* Gpu::write_oam
RenderOam(addr, v) ==
    /\ fault = "none"
    /\ n < MaxRenderOps
    /\ gpu' = write_oam(gpu, addr, v).gpu
    /\ obs' = [kind |-> "oam"]
    /\ n' = n + 1
    /\ UNCHANGED <<cpu, ic, tm, mem, devs, frm>>

\* Gpu::write_ctrl, write_scx, write_wx, write_wy
RenderWrite(reg, v) ==
    /\ fault = "none"
    /\ n < MaxRenderOps
    /\ gpu' = CASE reg = "ctrl" -> write_ctrl(gpu, v)
                [] reg = "scx" -> [gpu EXCEPT !.scx = v]
                [] reg = "wx" -> [gpu EXCEPT !.wx = v]
                [] reg = "wy" -> [gpu EXCEPT !.wy = v]
    /\ obs' = [kind |-> "write"]
    /\ n' = n + 1
    /\ UNCHANGED <<cpu, ic, tm, mem, devs, frm>>

\* Gpu::draw, called by Gpu::step at the end of Mode::Drawing.  obs keeps
\* the line's buffer (None when the call panicked).
RenderDraw ==
    /\ fault = "none"
    /\ n < MaxRenderOps
    /\ \E r \in {draw_buf(gpu)} :
           /\ fault' = r.fault
           /\ obs' = [kind |-> "draw", buf |-> r.value]
    /\ n' = n + 1
    /\ UNCHANGED <<cpu, ic, tm, gpu, mem, frm, dma, mbc, serial, joypad, mixer, wram, cgb,
                   sound>>

NextRender ==
    \/ \E w \in VramWrites : RenderVram(w[1], w[2])
    \/ \E w \in OamWrites : RenderOam(w[1], w[2])
    \/ \E w \in RenderWrites : RenderWrite(w[1], w[2])
    \/ RenderDraw

SpecRender == InitRender /\ [][NextRender]_vars

\* The window is shown on the line being drawn
WindowShown(g) ==
    /\ Bit(g.lcd_control, BG_AND_WINDOW_ENABLE) = 1
    /\ Bit(g.lcd_control, WINDOW_ENABLE) = 1
    /\ g.ly >= g.wy

\* C29 as stated: with the window enabled and LY >= WY, the pixels at
\* x < WX - 7 of the line drawn are the background's pixels and the pixels
\* at x >= WX - 7 are taken from the window's map (the objects are off: no
\* object's pixel lies over either).
C29_AsStated ==
    (obs.kind = "draw" /\ fault = "none" /\ WindowShown(gpu)
                       /\ Bit(gpu.lcd_control, OBJ_ENABLE) = 0) =>
        \A x \in 0 .. VRAM_WIDTH - 1 :
            IF x < gpu.wx - 7
              THEN obs.buf[x + 1] = when_bg_and_window_enable(gpu).value[x + 1]
              ELSE obs.buf[x + 1] = when_window_enable(gpu, blank_line).value[x + 1]


(***************************************************************************)
(* Bus accesses and peripheral steps (cpu.rs), under SpecCpu.  obs.bus     *)
(* lists the bus accesses of one call of execute(), each with the cycles   *)
(* of the step made right before it.                                       *)
(***************************************************************************)
\* the cycles of the step that belongs to an access of the given width
AccessCycles(width) == width \div 2

\* C30 as stated: every memory access of the CPU, the opcode fetch
\* included, is made right after a peripheral step of 4 cycles (8-bit
\* access) or 8 cycles (16-bit access).
C30_AsStated ==
    obs.kind = "exec" =>
        \A i \in DOMAIN obs.bus : obs.bus[i].stepped = AccessCycles(obs.bus[i].width)

\* C30: every memory access made through get8, get16, set8 or set16 (an
\* operand byte, the second byte of a 0xcb opcode, a data byte, a word
\* pushed) is made right after a peripheral step of 4 cycles (8-bit access)
\* or 8 cycles (16-bit access); the first opcode byte, read by prefetch as
\* the first access of every instruction, is read with no step before it.
C30_SteppedAccess ==
    obs.kind = "exec" =>
        /\ \A i \in DOMAIN obs.bus :
               IF obs.bus[i].via = "prefetch"
                 THEN i = 1 /\ obs.bus[i].stepped = 0
                 ELSE obs.bus[i].stepped = AccessCycles(obs.bus[i].width)
        /\ obs.op # "halted" => obs.bus # <<>> /\ obs.bus[1].via = "prefetch"

\* An LDH that fetches its operand and writes a byte, followed in the same
\* call by an interrupt dispatch that pushes PC.
C30_Witness ==
    /\ obs.kind = "exec"
    /\ obs.op = "ldh"
    /\ \E i, j, k \in DOMAIN obs.bus :
           /\ obs.bus[i].via = "get8"
           /\ obs.bus[j].via = "set8"
           /\ obs.bus[k].via = "set16"


(***************************************************************************)
(* The PPU specification with STAT and LYC: the PPU is stepped 4 or 8      *)
(* cycles at a time whether the LCD is on or off, and LCDC (LCD bit clear  *)
(* or set), STAT, LY and LYC are written at any time (n counts the        *)
(* steps).  obs keeps, for a                                               *)
(* step, the mode before it, whether it changed the mode or LY, and the    *)
(* interrupts it requested.                                                *)
(***************************************************************************)
\* steps of the PPU per run of this specification: 40 steps of 8 cycles
\* take the PPU from the LCD being turned on through HBLANK and the OAM
\* scan of line 1 into its drawing
MaxLcdSteps == 40

\* The values written to LYC: line 0 and line 1
LycValues == {0, 1}

WriteLyc(v) ==
    /\ fault = "none"
    /\ gpu' = write_lyc(gpu, v)
    /\ obs' = [kind |-> "write"]
    /\ UNCHANGED <<cpu, ic, tm, mem, frm, n, devs>>

\* An H-blank HDMA of one block armed from the cartridge's header at 0x0100
\* to the start of VRAM
LcdHdma == hdma_start([HdmaNew EXCEPT !.src_high = 1, !.dst_high = 128], 128)

\* The PPU with that HDMA armed, 8 cycles from the end of the drawing of
\* line 0 after the LCD was turned on with LCDC = 0x91
LcdHdmaPpu == [write_ctrl(GpuNew, 145) EXCEPT !.mode = "Drawing", !.clocks = 164,
                                              !.hdma = LcdHdma]

\* The PPU is stepped by Gpu::step (frm.rev = "gpu") or by Mmu::gpu_step,
\* the step of the older revision (frm.rev = "mmu"), which has no extension
\* and makes the HDMA's copy itself: there an HDMA may be armed.
InitLcd ==
    /\ cpu = CpuNew
    /\ ic = IcNew
    /\ tm = TimerNew
    /\ \E g \in Gpus \cup {LcdHdmaPpu}, rev \in {"gpu", "mmu"} :
           /\ rev = "mmu" => g.cgb_ext = GpuNew.cgb_ext
           /\ rev = "gpu" => g \in Gpus
           /\ gpu = g
           /\ frm = [rev |-> rev]
    /\ mem = NoMem
    /\ obs = [kind |-> "init"]
    /\ n = 0
    /\ DevicesNew

\* What a step that returned r leaves
LcdStepped(r) ==
    /\ gpu' = r.gpu
    /\ ic' = [ic EXCEPT !.request = @ \cup r.irq]
    /\ fault' = r.fault
    /\ obs' = IF r.fault = "panic" THEN [kind |-> "panic"]
              ELSE [kind |-> "step",
                    pre_mode |-> gpu.mode,
                    changed |-> (r.gpu.mode # gpu.mode \/ r.gpu.ly # gpu.ly),
                    irq |-> r.irq]
    /\ n' = n + 1
    /\ UNCHANGED <<cpu, tm, mem, frm, dma, mbc, serial, joypad, mixer, wram, cgb, sound>>

\* One call of Gpu::step
LcdStep(time) ==
    /\ fault = "none"
    /\ frm.rev = "gpu"
    /\ n < MaxLcdSteps
    /\ LcdStepped(gpu_step(gpu, time))

\* One call of Mmu::gpu_step
MmuGpuStep(time) ==
    /\ fault = "none"
    /\ frm.rev = "mmu"
    /\ n < MaxLcdSteps
    /\ LcdStepped(mmu_gpu_step(Machine, time))

NextLcd ==
    \/ \E time \in {4, 8} : LcdStep(time)
    \/ \E time \in {4, 8} : MmuGpuStep(time)
    \/ \E value \in {17, 145} : WriteCtrl(value)
    \/ \E value \in StatValues : WriteStat(value)
    \/ \E v \in LycValues : WriteLyc(v)
    \/ WriteLy

SpecLcd == InitLcd /\ [][NextLcd]_vars

\* C31 as stated: a PPU step made while the LCD is off (mode OFF) requests
\* no interrupt, neither VBLANK nor LCD STAT, whatever STAT, LY and LYC are.
C31_AsStated ==
    (obs.kind = "step" /\ obs.pre_mode = "None") => obs.irq = {}

\* C36 as stated: the PPU requests the LCD STAT interrupt only on a step
\* that changes the mode or LY.
C36_AsStated ==
    (obs.kind = "step" /\ ~obs.changed) => LCD \notin obs.irq


(***************************************************************************)
(* The HDMA specification (gpu.rs, Hdma), in a debug or a release build    *)
(* (frm.build).  The LCD is on and the PPU is 8 cycles from the end of the *)
(* drawing of line 1, where it is 448 cycles after the LCD was turned on   *)
(* with LCDC = 0x91.  The program first writes HDMA1..HDMA4, then writes   *)
(* HDMA5 at any time, MaxHdmaStarts times in all (counted by               *)
(* n), and the PPU is stepped 4 or 8 cycles at a time for MaxHdmaCycles    *)
(* cycles (frm.t), in which it enters the HBLANK of two lines.  frm.armed  *)
(* is the HDMA as the last arming write to HDMA5 left it, frm.reqs the     *)
(* requests returned since, frm.live whether HDMA5 has not been written    *)
(* since to cancel.  obs keeps, for a write to HDMA5, the HDMA before it   *)
(* and the value, and for a step the HDMA before it, whether the step      *)
(* entered HBLANK, the request it returned and whether a pointer wrapped.  *)
(***************************************************************************)
\* writes to HDMA5 per run
MaxHdmaStarts == 2

\* cycles stepped per run: HBLANK is entered after 8 and after 464 cycles
MaxHdmaCycles == 468

\* The values written to HDMA1..HDMA4 (source high and low, destination
\* high and low): bits that the masks of start() clear are set in each.
HdmaRegValues == [src_high |-> {255}, src_low |-> {247},
                  dst_high |-> {255}, dst_low |-> {249}]

\* The values written to HDMA5: general mode of 2 and 128 blocks, H-blank
\* mode of 1 and 2 blocks
Hdma5Values == {1, 127, 128, 129}

\* The PPU and the value of LCDC: the DMG extension with the background
\* on (0x91), the CGB extension with the background on and off (0x90)
HdmaPpus == {<<GpuNew, 145>>,
             <<[GpuNew EXCEPT !.cgb_ext = GpuCgbExtensionNew], 145>>,
             <<[GpuNew EXCEPT !.cgb_ext = GpuCgbExtensionNew], 144>>}

InitHdma ==
    /\ cpu = CpuNew
    /\ ic = IcNew
    /\ tm = TimerNew
    /\ \E c \in HdmaPpus :
           gpu = [write_ctrl(c[1], c[2]) EXCEPT !.mode = "Drawing", !.clocks = 164, !.ly = 1]
    /\ mem = NoMem
    /\ obs = [kind |-> "init"]
    /\ frm \in {[build |-> b, t |-> 0, armed |-> HdmaNew, reqs |-> 0, live |-> FALSE] :
                   b \in {"debug", "release"}}
    /\ n = 0
    /\ DevicesNew

\* Gpu::write_hdma_src_high, _src_low, _dst_high, _dst_low (HDMA1..HDMA4)
HdmaSet(reg, v) ==
    /\ fault = "none"
    /\ frm.t = 0
    /\ n = 0
    /\ gpu' = [gpu EXCEPT !.hdma[reg] = v]
    /\ obs' = [kind |-> "set"]
    /\ UNCHANGED <<cpu, ic, tm, mem, frm, n, devs>>

\* Gpu::write_hdma_start (HDMA5)
HdmaStart(v) ==
    /\ fault = "none"
    /\ n < MaxHdmaStarts
    /\ \E h \in {hdma_start(gpu.hdma, v)} :
           /\ gpu' = [gpu EXCEPT !.hdma = h]
           /\ obs' = [kind |-> "start", pre |-> gpu.hdma, value |-> v]
           /\ frm' = IF h.on
                       THEN [frm EXCEPT !.armed = h, !.reqs = 0, !.live = TRUE]
                       ELSE [frm EXCEPT !.live = FALSE]
    /\ n' = n + 1
    /\ UNCHANGED <<cpu, ic, tm, mem, devs>>

\* One call of Gpu::step.  A pointer overflow in Hdma::run ends a debug
\* build with a panic; the todo!() of the CGB extension's drawing ends
\* either build before the HDMA is run (obs.kind = "todo").
HdmaStep(time) ==
    /\ fault = "none"
    /\ frm.t + time <= MaxHdmaCycles
    /\ \E r \in {gpu_step(gpu, time)} :
           IF r.fault = "panic"
             THEN /\ fault' = "panic"
                  /\ obs' = [kind |-> "todo", pre |-> gpu.hdma]
                  /\ UNCHANGED <<gpu, ic, frm>>
           ELSE IF r.overflow /\ frm.build = "debug"
             THEN /\ fault' = "panic"
                  /\ obs' = [kind |-> "panic", pre |-> gpu.hdma]
                  /\ frm' = [frm EXCEPT !.t = @ + time]
                  /\ UNCHANGED <<gpu, ic>>
             ELSE /\ gpu' = r.gpu
                  /\ ic' = [ic EXCEPT !.request = @ \cup r.irq]
                  /\ obs' = [kind |-> "step", pre |-> gpu.hdma,
                             enter |-> r.enter_hblank, req |-> r.dma,
                             overflow |-> r.overflow]
                  /\ frm' = [frm EXCEPT !.t = @ + time,
                                        !.reqs = IF r.dma # NoRequest THEN @ + 1 ELSE @]
                  /\ fault' = fault
    /\ UNCHANGED <<cpu, tm, mem, n, dma, mbc, serial, joypad, mixer, wram, cgb, sound>>

NextHdma ==
    \/ \E reg \in DOMAIN HdmaRegValues : \E v \in HdmaRegValues[reg] : HdmaSet(reg, v)
    \/ \E v \in Hdma5Values : HdmaStart(v)
    \/ \E time \in {4, 8} : HdmaStep(time)

SpecHdma == InitHdma /\ [][NextHdma]_vars


\* The 16-bit register pairs HDMA1:HDMA2 and HDMA3:HDMA4
HdmaSource(h) == h.src_high * 256 + h.src_low
HdmaDest(h) == h.dst_high * 256 + h.dst_low

\* C32: a write to HDMA5 made while an H-blank-mode HDMA is running, with
\* bit 7 of the value clear, cancels the transfer (running and H-blank mode
\* become false) and arms nothing (pointers and length stay); every other
\* write to HDMA5 arms a transfer with source = (HDMA1<<8|HDMA2) & 0xFFF0,
\* destination = ((HDMA3<<8|HDMA4) & 0x1FF0) | 0x8000, length = bits 6..0,
\* mode = bit 7 and running = true.
C32_StartOrCancel ==
    obs.kind = "start" =>
        LET h == obs.pre
            v == obs.value
        IN  IF h.on /\ h.hblank /\ v < 128
              THEN gpu.hdma = [h EXCEPT !.on = FALSE, !.hblank = FALSE]
              ELSE gpu.hdma =
                       [h EXCEPT !.on = TRUE,
                                 !.hblank = (v >= 128),
                                 !.len = v % 128,
                                 !.src_wip = HdmaSource(h) - (HdmaSource(h) % 16),
                                 !.dst_wip = ((HdmaDest(h) % 8192) - (HdmaDest(h) % 16))
                                                 + 32768]

\* C32 witness: an H-blank transfer armed from HDMA1..4 = ff f7 ff f9
\* (source 0xfff0, destination 0x9ff0) with 2 blocks has been cancelled by
\* a write of 0x01 to HDMA5.
C32_Witness ==
    /\ obs.kind = "start"
    /\ obs.value = 1
    /\ obs.pre.on /\ obs.pre.hblank
    /\ frm.armed.src_wip = 65520 /\ frm.armed.dst_wip = 40944 /\ frm.armed.len = 1
    /\ ~gpu.hdma.on /\ ~gpu.hdma.hblank
    /\ ~frm.live


\* The request an HDMA h returns when it runs
HdmaRequest(h, size) == [src |-> h.src_wip, dst |-> h.dst_wip, len |-> size]

\* C33: while an H-blank-mode HDMA armed with length L is running, a PPU
\* step returns a request exactly when it enters HBLANK, the request is of
\* 16 bytes at the running source and destination, which advance by 16,
\* and the transfer is running exactly until L+1 requests were returned; a
\* general-mode HDMA returns one request of (L+1) * 16 bytes on the next
\* PPU step and stops; an HDMA that is not running returns none.
C33_HblankCadence ==
    /\ obs.kind = "step" =>
           LET h == obs.pre
           IN  CASE h.on /\ h.hblank ->
                      /\ (obs.req # NoRequest) <=> obs.enter
                      /\ obs.enter =>
                             /\ obs.req = HdmaRequest(h, 16)
                             /\ gpu.hdma.src_wip = W16(h.src_wip + 16)
                             /\ gpu.hdma.dst_wip = W16(h.dst_wip + 16)
                      /\ ~obs.enter => gpu.hdma = h
                 [] h.on /\ ~h.hblank ->
                      /\ obs.req = HdmaRequest(h, (h.len + 1) * 16)
                      /\ ~gpu.hdma.on
                 [] OTHER -> obs.req = NoRequest /\ gpu.hdma = h
    /\ (frm.live /\ frm.armed.hblank) =>
           /\ gpu.hdma.on <=> frm.reqs < frm.armed.len + 1
           /\ gpu.hdma.src_wip = W16(frm.armed.src_wip + 16 * frm.reqs)
           /\ gpu.hdma.dst_wip = W16(frm.armed.dst_wip + 16 * frm.reqs)
    /\ (frm.live /\ ~frm.armed.hblank) =>
           /\ frm.reqs <= 1
           /\ gpu.hdma.on <=> frm.reqs = 0

\* C33 witness: an H-blank transfer armed with L = 1 from source 0x0000 has
\* returned its second request, for 0x0010, on the step that entered the
\* second HBLANK, and has stopped.
C33_Witness ==
    /\ obs.kind = "step"
    /\ obs.enter
    /\ frm.live /\ frm.armed.hblank /\ frm.armed.len = 1 /\ frm.armed.src_wip = 0
    /\ frm.reqs = 2
    /\ obs.req = [src |-> 16, dst |-> frm.armed.dst_wip + 16, len |-> 16]
    /\ ~gpu.hdma.on


\* VRAM: 0x8000 .. 0x9fff
VRAM_START == 32768
VRAM_END == 40959

\* C38 as stated: every transfer request's destination range lies within
\* VRAM, and advancing the running source and destination pointers never
\* overflows 16 bits (no step panics on it, none wraps).
C38_AsStated ==
    /\ obs.kind # "panic"
    /\ obs.kind = "step" =>
           /\ ~obs.overflow
           /\ obs.req # NoRequest =>
                  /\ obs.req.dst >= VRAM_START
                  /\ obs.req.dst + obs.req.len - 1 <= VRAM_END


\* The latch range of MBC3, 0x6000 .. 0x7fff
LatchRange == 24576 .. 32767

\* C34 as stated: a write of 0x01 to 0x6000..0x7fff latches exactly when
\* the write to that range before it was 0x00; no other write to the range
\* latches.
C34_AsStated ==
    (obs.kind = "write" /\ obs.addr \in LatchRange) =>
        (obs.latched <=> (obs.value = 1 /\ obs.prev = 0))

\* The latch of this write read a host clock earlier than the stored epoch.
ClockWentBack ==
    /\ obs.kind = "write"
    /\ obs.latched
    /\ Bit(obs.pre.rtc[12], 6) = 0
    /\ mbc3_epoch(obs.pre) < obs.pre.epoch

\* C35 as stated: when the host clock read at a latch is earlier than the
\* stored epoch, the elapsed time counts as zero: the latch completes and
\* the clock registers keep the time they held before it.
C35_AsStated ==
    ClockWentBack =>
        /\ fault = "none"
        /\ RtcTime(mbc) = RtcTime(obs.pre)


(***************************************************************************)
(* IME after an interrupt dispatch (cpu.rs), under SpecCpu.                *)
(***************************************************************************)
\* C37 as stated: after a dispatch has set IME to false, IME is false at
\* every instruction boundary until an EI executed after the dispatch takes
\* effect; the earliest such boundary is that of the second instruction of
\* the handler, so at the boundary of the first instruction after the
\* dispatch IME is false.
C37_AsStated ==
    (obs.kind = "exec" /\ obs.after_dispatch) => ~obs.bnd.ime


(***************************************************************************)
(* The MBC1 write specification: an MBC1 cartridge as constructed (boot    *)
(* ROM mapped); the program writes bytes to the controller's registers and *)
(* to the cartridge RAM, and unmaps the boot ROM with a write to 0xff50,   *)
(* MaxMbc1Ops writes in all.                                               *)
(***************************************************************************)
MaxMbc1Ops == 3

\* The first and last address of each register range and of the cartridge
\* RAM, and the boot ROM switch
Mbc1Addrs == {0, 256, 8191, 8192, 16383, 16384, 24575, 24576, 32767, 40960, 49151, 65360}

\* 0x0a enables the RAM, 0 and 1 are banking modes, 2 and 0xff are neither
Mbc1Values == {0, 1, 2, 10, 255}

InitMbc1 == MbcInit({Mbc1New(65536)})

NextMbc1 == \E addr \in Mbc1Addrs, value \in Mbc1Values : MbcWrite(addr, value, MaxMbc1Ops)

SpecMbc1 == InitMbc1 /\ [][NextMbc1]_vars

\* C39 as stated: on MBC1, a write of any byte to any address in
\* 0x0000..0x7fff or 0xa000..0xbfff that reaches the controller (the boot
\* ROM does not cover the address) completes without aborting.
C39_AsStated ==
    (/\ obs.kind = "write"
     /\ obs.addr \in (0 .. 32767) \cup ExternalRam
     /\ ~(obs.pre.use_boot_rom /\ obs.addr < 256)) =>
        fault = "none"


\* operations per run of the VBK specification
MaxVbkOps == 3

\* The program writes and reads VBK, on a DMG and on a CGB.  frm.vbk is the
\* last value written (None before the first write).
InitVbk ==
    /\ cpu = CpuNew
    /\ ic = IcNew
    /\ tm = TimerNew
    /\ gpu \in {GpuNew, [GpuNew EXCEPT !.cgb_ext = GpuCgbExtensionNew]}
    /\ mem = NoMem
    /\ obs = [kind |-> "init"]
    /\ frm = [vbk |-> None]
    /\ n = 0
    /\ DevicesNew

VbkWrite(v) ==
    /\ fault = "none"
    /\ n < MaxVbkOps
    /\ \E r \in {select_vram_bank(gpu, v)} :
           /\ gpu' = r.gpu
           /\ fault' = r.fault
    /\ obs' = [kind |-> "write", value |-> v]
    /\ frm' = [vbk |-> v]
    /\ n' = n + 1
    /\ UNCHANGED <<cpu, ic, tm, mem, dma, mbc, serial, joypad, mixer, wram, cgb, sound>>

VbkRead ==
    /\ fault = "none"
    /\ n < MaxVbkOps
    /\ \E r \in {read_vram_bank_select(gpu)} :
           /\ fault' = r.fault
           /\ obs' = [kind |-> "read", value |-> r.value]
    /\ n' = n + 1
    /\ UNCHANGED <<cpu, ic, tm, gpu, mem, frm, dma, mbc, serial, joypad, mixer, wram, cgb, sound>>

NextVbk ==
    \/ \E v \in 0 .. 255 : VbkWrite(v)
    \/ VbkRead

SpecVbk == InitVbk /\ [][NextVbk]_vars

\* C40 as stated: in CGB mode, after v was written to VBK, a read of VBK
\* returns a value whose bit 0 is v & 1.
C40_AsStated ==
    (obs.kind = "read" /\ gpu.cgb_ext.kind = "cgb" /\ frm.vbk # None) =>
        /\ fault = "none"
        /\ obs.value % 2 = frm.vbk % 2

=============================================================================
